---- MODULE Spec2Model ----
(***************************************************************************)
(* Event reconciliation and coalescing engine of NhlGameNotifications      *)
(* (src/nhl_notifications_app.py).  Two feeds drive the app: Feed A is the *)
(* dashboard sensor (dashboard_sensor_change_callback), Feed B the NHL API *)
(* sensor bridge (nhl_api_sensor_change_callback).  Timers created with    *)
(* run_in fire as separate callbacks; every callback runs to completion    *)
(* before the next one starts.                                             *)
(*                                                                         *)
(* Time is counted in ticks of 0.1 s, so max(0.1, d) becomes Max(1, d).    *)
(***************************************************************************)
EXTENDS Integers, FiniteSets, Sequences, TLC

\* ------------------------------------------------------------------ bounds
MaxObs == 3            \* observations delivered by the two feeds together
MaxTime == 3           \* last tick of the clock
MaxScore == 1          \* largest total of goals on the board
MaxPresetChanges == 1  \* manual team selection changes

\* ------------------------------------------------------- value vocabulary
NoGame == "none"       \* Python None for a game id
NoEvent == "none"      \* Python None for an event id
NoTeam == "none"       \* no team selected / resolvable
NoSig == <<-1, -1>>    \* Python None for a score signature
Absent == 0 - 1           \* key missing from a dict / value None
GameIds == {"g1", "g2"}
EventIds == {"e1", "e2"}
Names == {1, 2}        \* player names; 0 stands for an empty value
Sigs == {s \in (0..MaxScore) \X (0..MaxScore) : s[1] + s[2] <= MaxScore}

Max(a, b) == IF a >= b THEN a ELSE b
Min(a, b) == IF a <= b THEN a ELSE b
Or(a, b) == IF a > 0 THEN a ELSE b   \* Python "a or b" on names and clocks

\* The tracked team is MY; g1 is a home game for MY, g2 an away game.
HomeAbbr(g) == IF g = "g1" THEN "MY" ELSE IF g = "g2" THEN "OPP" ELSE "HME"
AwayAbbr(g) == IF g = "g1" THEN "OPP" ELSE IF g = "g2" THEN "MY" ELSE "AWY"

Put(f, k, v) == [x \in (DOMAIN f) \cup {k} |-> IF x = k THEN v ELSE f[x]]
Drop(f, k) == [x \in (DOMAIN f) \ {k} |-> f[x]]
EmptyMap == [x \in {} |-> 0]

VARIABLES
  cfg,                                      \* self.args as read by initialize
  selected,                                 \* team_notification_preset_select
  internal_prev_home_score,
  internal_prev_away_score,
  internal_prev_game_id_for_score_tracking,
  internal_win_fired_game_id,
  internal_start_fired_game_id,
  nhl_api_goal_ids_processed,
  pending_event_timers,                     \* event id -> timer handle
  pending_event_payloads,                   \* event id -> draft payload
  fired_event_ids,
  sb_goal_suppress_until_ts,
  sb_last_fired_home_away,
  pending_sb_goal_timers,                   \* score signature -> timer handle
  timers,                                   \* running run_in timers, by handle
  nextHandle,                               \* next handle run_in returns
  dash,                                     \* current state of the Feed A sensor
  apiState,                                 \* current state of the Feed B sensor
  initLoadPending,                          \* _async_initial_state_load tasks
  now,                                      \* time.time()
  log,                                      \* events handed to the consumers
  epoch,                                    \* number of resets so far
  resetSnap,                                \* engine state right after the last reset step
  obsLeft,
  presetChangesLeft,
  goalApp,                                  \* the NhlGoalCelebrations instance and its timers
  dashMgr                                   \* the NhlDashboardManager instance, its timer and tasks

appVars == <<internal_prev_home_score, internal_prev_away_score,
             internal_prev_game_id_for_score_tracking, internal_win_fired_game_id,
             internal_start_fired_game_id, nhl_api_goal_ids_processed,
             pending_event_timers, pending_event_payloads, fired_event_ids,
             sb_goal_suppress_until_ts, sb_last_fired_home_away,
             pending_sb_goal_timers, timers, nextHandle, log, epoch, resetSnap>>

vars == <<cfg, selected, appVars, dash, apiState, initLoadPending, now,
          obsLeft, presetChangesLeft, goalApp, dashMgr>>

\* The engine state as one record, so that the steps of a handler compose.
Self ==
  [internal_prev_home_score |-> internal_prev_home_score,
   internal_prev_away_score |-> internal_prev_away_score,
   internal_prev_game_id_for_score_tracking |-> internal_prev_game_id_for_score_tracking,
   internal_win_fired_game_id |-> internal_win_fired_game_id,
   internal_start_fired_game_id |-> internal_start_fired_game_id,
   nhl_api_goal_ids_processed |-> nhl_api_goal_ids_processed,
   pending_event_timers |-> pending_event_timers,
   pending_event_payloads |-> pending_event_payloads,
   fired_event_ids |-> fired_event_ids,
   sb_goal_suppress_until_ts |-> sb_goal_suppress_until_ts,
   sb_last_fired_home_away |-> sb_last_fired_home_away,
   pending_sb_goal_timers |-> pending_sb_goal_timers,
   timers |-> timers,
   nextHandle |-> nextHandle,
   log |-> log,
   epoch |-> epoch,
   resetSnap |-> resetSnap]

Commit(s) ==
  /\ internal_prev_home_score' = s.internal_prev_home_score
  /\ internal_prev_away_score' = s.internal_prev_away_score
  /\ internal_prev_game_id_for_score_tracking' = s.internal_prev_game_id_for_score_tracking
  /\ internal_win_fired_game_id' = s.internal_win_fired_game_id
  /\ internal_start_fired_game_id' = s.internal_start_fired_game_id
  /\ nhl_api_goal_ids_processed' = s.nhl_api_goal_ids_processed
  /\ pending_event_timers' = s.pending_event_timers
  /\ pending_event_payloads' = s.pending_event_payloads
  /\ fired_event_ids' = s.fired_event_ids
  /\ sb_goal_suppress_until_ts' = s.sb_goal_suppress_until_ts
  /\ sb_last_fired_home_away' = s.sb_last_fired_home_away
  /\ pending_sb_goal_timers' = s.pending_sb_goal_timers
  /\ timers' = s.timers
  /\ nextHandle' = s.nextHandle
  /\ log' = s.log
  /\ epoch' = s.epoch
  /\ resetSnap' = s.resetSnap

\* ------------------------------------------------------- program constants
MinDelay == 1          \* the 0.1 s floor of every run_in delay
BroadcastCap == 1200   \* the 120.0 s ceiling of the broadcast delay
APlayer == 9           \* the literal name "a player"

\* ------------------------------------------------------------ configuration
Configs(suppress, broadcast, homeOnly) ==
  [coalesce_goal_seconds : {2},
   coalesce_penalty_seconds : {1},
   suppress_after_scoreboard_goal_seconds : suppress,
   broadcast_delay_seconds : broadcast,
   celebrate_win_only_if_home : homeOnly,
   opponent_goal_event_to_fire : {TRUE}]

_get_broadcast_delay(c) == Max(0, Min(BroadcastCap, c.broadcast_delay_seconds))

\* --------------------------------------------------------------- feed data
NoFeed == [has |-> FALSE, sig |-> NoSig, scorer |-> 0]
NoDetail == [found |-> FALSE, scorer |-> 0]
NoLastEvent == [type |-> "", team |-> "", player |-> 0]

\* _match_goal_detail on a scoring feed of at most one entry; the entry carries
\* a score string and a scorer, no team and no time.
_match_goal_detail(feed, score_sig, scorer_name) ==
  IF ~feed.has THEN NoDetail
  ELSE IF score_sig # NoSig /\ feed.sig # NoSig /\ feed.sig # score_sig THEN NoDetail
  ELSE IF scorer_name > 0 /\ feed.scorer # scorer_name THEN NoDetail
  ELSE [found |-> TRUE, scorer |-> Or(feed.scorer, scorer_name)]

\* ------------------------------------------------------------------ timers
NoTimerArgs ==
  [event_id |-> NoEvent, event_type |-> "", kind |-> "", score_sig |-> NoSig,
   my_score |-> Absent, opp_score |-> Absent, is_home |-> FALSE,
   goal_detail |-> NoDetail, scoring_feed |-> NoFeed, period_ord |-> 0,
   game_id |-> NoGame]

\* run_in(callback, delay, **kwargs): the handle returned is s.nextHandle.
run_in(s, cb, delay, kwargs) ==
  [s EXCEPT
     !.timers = Put(s.timers, s.nextHandle,
                    [cb |-> cb, due |-> now + delay, epoch |-> s.epoch, kw |-> kwargs]),
     !.nextHandle = s.nextHandle + 1]

\* if self.timer_running(handle): self.cancel_timer(handle)
cancel_timer(s, h) ==
  IF h \in DOMAIN s.timers THEN [s EXCEPT !.timers = Drop(s.timers, h)] ELSE s

RECURSIVE CancelAll(_, _)
CancelAll(s, hs) ==
  IF hs = {} THEN s
  ELSE LET h == CHOOSE x \in hs : TRUE IN CancelAll(cancel_timer(s, h), hs \ {h})

Range(f) == {f[x] : x \in DOMAIN f}

_clear_pending_events(s) ==
  LET c == CancelAll(s, Range(s.pending_event_timers) \cup Range(s.pending_sb_goal_timers))
  IN [c EXCEPT
        !.pending_event_timers = EmptyMap,
        !.pending_event_payloads = EmptyMap,
        !.fired_event_ids = {},
        !.nhl_api_goal_ids_processed = {},
        !.pending_sb_goal_timers = EmptyMap,
        !.sb_goal_suppress_until_ts = 0,
        !.sb_last_fired_home_away = NoSig,
        !.epoch = s.epoch + 1]

\* ------------------------------------------------------------- coalescing
\* A sliding debounce: every observation of the id restarts its timer.
ScheduleRestartsTimer(s, event_id, event_type, payload, delay) ==
  IF event_id \in s.fired_event_ids THEN s
  ELSE
    LET c == IF event_id \in DOMAIN s.pending_event_timers
             THEN cancel_timer(s, s.pending_event_timers[event_id]) ELSE s
        p == [c EXCEPT !.pending_event_payloads = Put(c.pending_event_payloads, event_id, payload)]
        r == run_in(p, "coalesced", Max(MinDelay, delay),
                    [NoTimerArgs EXCEPT !.event_id = event_id, !.event_type = event_type])
    IN [r EXCEPT !.pending_event_timers = Put(r.pending_event_timers, event_id, p.nextHandle)]

\* The scheduler without its look at the fired-event log.
ScheduleIgnoresFiredLog(s, event_id, event_type, payload, delay) ==
  LET p == [s EXCEPT !.pending_event_payloads = Put(s.pending_event_payloads, event_id, payload)]
  IN IF event_id \notin DOMAIN p.pending_event_timers
     THEN LET r == run_in(p, "coalesced", Max(MinDelay, delay),
                          [NoTimerArgs EXCEPT !.event_id = event_id, !.event_type = event_type])
          IN [r EXCEPT !.pending_event_timers = Put(r.pending_event_timers, event_id, p.nextHandle)]
     ELSE p

_schedule_event_coalesced(s, event_id, event_type, payload, delay) ==
  IF event_id \in s.fired_event_ids THEN s
  ELSE
    LET p == [s EXCEPT !.pending_event_payloads = Put(s.pending_event_payloads, event_id, payload)]
    IN IF event_id \notin DOMAIN p.pending_event_timers
       THEN LET r == run_in(p, "coalesced", Max(MinDelay, delay),
                            [NoTimerArgs EXCEPT !.event_id = event_id, !.event_type = event_type])
            IN [r EXCEPT !.pending_event_timers = Put(r.pending_event_timers, event_id, p.nextHandle)]
       ELSE p

\* ------------------------------------------------------------- dispatches
\* One record per hand-off to the consumers (fire_event plus notification).
Emit(s, kind, path, src, id, sig, my, player, assists, period, gid, schedEpoch) ==
  [s EXCEPT !.log = Append(s.log,
     [kind |-> kind, path |-> path, src |-> src, id |-> id, sig |-> sig, my |-> my,
      player |-> player, assists |-> assists, period |-> period, game_id |-> gid,
      epoch |-> s.epoch, schedEpoch |-> schedEpoch])]

\* The engine state right after a reset step, kept for inspection.
Snap(s, cause, oh, oa) ==
  [s EXCEPT !.resetSnap =
     [cause |-> cause, epoch |-> s.epoch,
      fired_event_ids |-> s.fired_event_ids,
      nhl_api_goal_ids_processed |-> s.nhl_api_goal_ids_processed,
      pending_ids |-> (DOMAIN s.pending_event_timers) \cup (DOMAIN s.pending_event_payloads),
      pending_sigs |-> DOMAIN s.pending_sb_goal_timers,
      event_timers |-> {h \in DOMAIN s.timers : s.timers[h].cb = "coalesced"},
      fallback_timers |-> {h \in DOMAIN s.timers : s.timers[h].cb = "sb_goal"},
      sb_goal_suppress_until_ts |-> s.sb_goal_suppress_until_ts,
      sb_last_fired_home_away |-> s.sb_last_fired_home_away,
      prev_home |-> s.internal_prev_home_score,
      prev_away |-> s.internal_prev_away_score,
      prev_game_id |-> s.internal_prev_game_id_for_score_tracking,
      obs_home |-> oh, obs_away |-> oa]]

NoSnap ==
  [cause |-> "", epoch |-> 0, fired_event_ids |-> {}, nhl_api_goal_ids_processed |-> {},
   pending_ids |-> {}, pending_sigs |-> {}, event_timers |-> {}, fallback_timers |-> {},
   sb_goal_suppress_until_ts |-> 0,
   sb_last_fired_home_away |-> NoSig, prev_home |-> 0, prev_away |-> 0,
   prev_game_id |-> NoGame, obs_home |-> 0, obs_away |-> 0]

\* ------------------------------------------------- Feed A (dashboard sensor)
\* Lines 974-997: the reset step of dashboard_sensor_change_callback.
DashReset(s, o) ==
  IF o.game_id # NoGame /\ o.game_id # s.internal_prev_game_id_for_score_tracking
  THEN Snap([_clear_pending_events(s) EXCEPT
               !.internal_prev_home_score = o.home_score,
               !.internal_prev_away_score = o.away_score,
               !.internal_prev_game_id_for_score_tracking = o.game_id,
               !.internal_win_fired_game_id = NoGame,
               !.internal_start_fired_game_id = NoGame],
            "dash_game_id", o.home_score, o.away_score)
  ELSE IF o.game_id = NoGame
  THEN Snap([_clear_pending_events(s) EXCEPT
               !.internal_prev_home_score = 0,
               !.internal_prev_away_score = 0,
               !.internal_prev_game_id_for_score_tracking = NoGame,
               !.internal_win_fired_game_id = NoGame,
               !.internal_start_fired_game_id = NoGame],
            "dash_no_game", o.home_score, o.away_score)
  ELSE s

\* Lines 999-1031: which side is mine, and whether either side scored.
DashContext(s, o, sel) ==
  LET isHome == sel = HomeAbbr(o.game_id)
      myNew == IF isHome THEN o.home_score ELSE o.away_score
      oppNew == IF isHome THEN o.away_score ELSE o.home_score
      myPrev == IF isHome THEN s.internal_prev_home_score ELSE s.internal_prev_away_score
      oppPrev == IF isHome THEN s.internal_prev_away_score ELSE s.internal_prev_home_score
  IN [resolved |-> sel \in {HomeAbbr(o.game_id), AwayAbbr(o.game_id)},
      is_home |-> isHome,
      my_team_abbr |-> sel,
      my_score_new |-> myNew, opp_score_new |-> oppNew,
      my_scored |-> myNew > myPrev, opp_scored |-> oppNew > oppPrev]

DashIsIdentified(s, o) ==
  /\ o.state = "LIVE"
  /\ o.last_event.type # ""
  /\ o.last_event_id # NoEvent
  /\ o.last_event_id \notin s.fired_event_ids
  /\ o.last_event.type \in {"goal", "penalty"}

\* An identified goal that cancels every pending fallback timer.
GoalCancelsAllFallbacks(s, o, c) ==
  LET sig == <<o.home_score, o.away_score>>
      popped == [s EXCEPT
                   !.timers = [h \in {x \in DOMAIN s.timers : s.timers[x].cb # "sb_goal"}
                                 |-> s.timers[h]],
                   !.pending_sb_goal_timers = EmptyMap]
      isMy == IF o.last_event.team # "" THEN o.last_event.team = c.my_team_abbr
              ELSE c.my_scored
      payload == [ptype |-> "goal", is_my_event |-> isMy, my_is_home |-> c.is_home,
                  my_score |-> c.my_score_new, opp_score |-> c.opp_score_new,
                  raw_type |-> o.last_event.type, raw_player |-> o.last_event.player,
                  period_ord |-> o.period_ord, score_sig |-> sig,
                  goal_detail |-> _match_goal_detail(o.scoring_detailed, sig, o.last_event.player),
                  scoring_feed |-> o.scoring_detailed,
                  assists |-> Absent, src |-> "A"]
  IN _schedule_event_coalesced(popped, o.last_event_id, "goal", payload,
       Max(MinDelay, cfg.coalesce_goal_seconds + _get_broadcast_delay(cfg)))

\* Lines 1046-1093: an identified goal from Feed A.
DashGoal(s, o, c) ==
  LET sig == <<o.home_score, o.away_score>>
      popped == IF sig \in DOMAIN s.pending_sb_goal_timers
                THEN [cancel_timer(s, s.pending_sb_goal_timers[sig]) EXCEPT
                        !.pending_sb_goal_timers = Drop(s.pending_sb_goal_timers, sig)]
                ELSE s
      isMy == IF o.last_event.team # "" THEN o.last_event.team = c.my_team_abbr
              ELSE c.my_scored
      payload == [ptype |-> "goal", is_my_event |-> isMy, my_is_home |-> c.is_home,
                  my_score |-> c.my_score_new, opp_score |-> c.opp_score_new,
                  raw_type |-> o.last_event.type, raw_player |-> o.last_event.player,
                  period_ord |-> o.period_ord, score_sig |-> sig,
                  goal_detail |-> _match_goal_detail(o.scoring_detailed, sig, o.last_event.player),
                  scoring_feed |-> o.scoring_detailed,
                  assists |-> Absent, src |-> "A"]
  IN _schedule_event_coalesced(popped, o.last_event_id, "goal", payload,
       Max(MinDelay, cfg.coalesce_goal_seconds + _get_broadcast_delay(cfg)))

\* A penalty step that waits for the goal window instead of its own.
PenaltyUsesGoalWindow(s, o, c) ==
  LET payload == [ptype |-> "penalty", is_my_event |-> FALSE, my_is_home |-> FALSE,
                  my_score |-> Absent, opp_score |-> Absent,
                  raw_type |-> o.last_event.type, raw_player |-> o.last_event.player,
                  period_ord |-> o.period_ord, score_sig |-> NoSig,
                  goal_detail |-> NoDetail,
                  scoring_feed |-> o.scoring_detailed,
                  assists |-> Absent, src |-> "A"]
  IN _schedule_event_coalesced(s, o.last_event_id, "penalty", payload,
       Max(MinDelay, cfg.coalesce_goal_seconds + _get_broadcast_delay(cfg)))

\* Lines 1094-1119: an identified penalty from Feed A.
DashPenalty(s, o, c) ==
  LET payload == [ptype |-> "penalty", is_my_event |-> FALSE, my_is_home |-> FALSE,
                  my_score |-> Absent, opp_score |-> Absent,
                  raw_type |-> o.last_event.type, raw_player |-> o.last_event.player,
                  period_ord |-> o.period_ord, score_sig |-> NoSig,
                  goal_detail |-> NoDetail,
                  scoring_feed |-> o.scoring_detailed,
                  assists |-> Absent, src |-> "A"]
  IN _schedule_event_coalesced(s, o.last_event_id, "penalty", payload,
       Max(MinDelay, cfg.coalesce_penalty_seconds + _get_broadcast_delay(cfg)))

\* A fallback step that cancels the fallback timers already pending.
FallbackReplacesEarlier(s, o, c) ==
  LET sig == <<o.home_score, o.away_score>>
      kind == IF c.my_scored THEN "my" ELSE "opp"
      cleared == [s EXCEPT
                    !.timers = [h \in {x \in DOMAIN s.timers : s.timers[x].cb # "sb_goal"}
                                  |-> s.timers[h]],
                    !.pending_sb_goal_timers = EmptyMap]
      r == run_in(cleared, "sb_goal", Max(MinDelay, _get_broadcast_delay(cfg)),
                  [NoTimerArgs EXCEPT
                     !.kind = kind, !.score_sig = sig,
                     !.my_score = c.my_score_new, !.opp_score = c.opp_score_new,
                     !.is_home = c.is_home, !.period_ord = o.period_ord,
                     !.scoring_feed = o.scoring_detailed,
                     !.goal_detail = _match_goal_detail(o.scoring_detailed, sig, 0),
                     !.game_id = o.game_id])
  IN IF c.my_scored \/ (c.opp_scored /\ cfg.opponent_goal_event_to_fire)
     THEN [r EXCEPT !.pending_sb_goal_timers = Put(r.pending_sb_goal_timers, sig, s.nextHandle)]
     ELSE s

\* Lines 1121-1179: the scoreboard fallback for a score increase without an id.
DashFallback(s, o, c) ==
  LET sig == <<o.home_score, o.away_score>>
      kind == IF c.my_scored THEN "my" ELSE "opp"
      r == run_in(s, "sb_goal", Max(MinDelay, _get_broadcast_delay(cfg)),
                  [NoTimerArgs EXCEPT
                     !.kind = kind, !.score_sig = sig,
                     !.my_score = c.my_score_new, !.opp_score = c.opp_score_new,
                     !.is_home = c.is_home, !.period_ord = o.period_ord,
                     !.scoring_feed = o.scoring_detailed,
                     !.goal_detail = _match_goal_detail(o.scoring_detailed, sig, 0),
                     !.game_id = o.game_id])
  IN IF c.my_scored \/ (c.opp_scored /\ cfg.opponent_goal_event_to_fire)
     THEN [r EXCEPT !.pending_sb_goal_timers = Put(r.pending_sb_goal_timers, sig, s.nextHandle)]
     ELSE s

\* Lines 1181-1202: a delayed win from Feed A.
DashWin(s, o, c) ==
  IF /\ o.state \in {"FINAL", "OFF"}
     /\ c.my_score_new > c.opp_score_new
     /\ o.game_id # NoGame
     /\ s.internal_win_fired_game_id # o.game_id
     /\ (~cfg.celebrate_win_only_if_home \/ c.is_home)
  THEN run_in(s, "win", Max(MinDelay, _get_broadcast_delay(cfg)),
              [NoTimerArgs EXCEPT !.game_id = o.game_id, !.is_home = c.is_home,
                 !.my_score = c.my_score_new, !.opp_score = c.opp_score_new,
                 !.kind = "A"])
  ELSE s

\* Lines 1204-1208: the baseline follows an increase seen in the tracked game.
DashBaseline(s, o, c) ==
  IF o.game_id = s.internal_prev_game_id_for_score_tracking /\ (c.my_scored \/ c.opp_scored)
  THEN [s EXCEPT !.internal_prev_home_score = o.home_score,
                 !.internal_prev_away_score = o.away_score]
  ELSE s

dashboard_sensor_change_callback(s, o, sel) ==
  LET r == DashReset(s, o)
      c == DashContext(r, o, sel)
      e == IF DashIsIdentified(r, o)
           THEN IF o.last_event.type = "goal" THEN DashGoal(r, o, c) ELSE DashPenalty(r, o, c)
           ELSE DashFallback(r, o, c)
  IN IF ~c.resolved THEN r
     ELSE DashBaseline(DashWin(e, o, c), o, c)

\* --------------------------------------------------- Feed B (NHL API sensor)
\* _build_nhl_api_context: None when the tracked team plays on neither side.
_build_nhl_api_context(o, sel) ==
  LET home == HomeAbbr(o.game_id)
      away == AwayAbbr(o.game_id)
      target == IF sel \in {home, away} THEN sel
                ELSE IF o.team_abbrev \in {home, away} THEN o.team_abbrev
                ELSE NoTeam
      isHome == target = home
  IN [ok |-> target # NoTeam,
      my_team_abbr |-> target,
      opp_team_abbr |-> IF isHome THEN away ELSE home,
      is_home |-> isHome,
      home_score |-> o.home_score, away_score |-> o.away_score,
      game_id |-> o.game_id]

\* A resolver that consults the boolean flag before the team tag.
FlagBeforeTag(s, o, c) ==
  IF o.goal_tracked_team \in {"true", "false"} THEN o.goal_tracked_team = "true"
  ELSE IF o.goal_team_abbrev # "" /\ o.goal_team_abbrev = c.my_team_abbr THEN TRUE
  ELSE IF o.goal_team_abbrev # "" /\ o.goal_team_abbrev = c.opp_team_abbr THEN FALSE
  ELSE IF c.is_home THEN c.home_score > s.internal_prev_home_score
  ELSE c.away_score > s.internal_prev_away_score

\* _determine_goal_side: tag, then flag, then score delta, then opponent.
_determine_goal_side(s, o, c) ==
  IF o.goal_team_abbrev # "" /\ o.goal_team_abbrev = c.my_team_abbr THEN TRUE
  ELSE IF o.goal_team_abbrev # "" /\ o.goal_team_abbrev = c.opp_team_abbr THEN FALSE
  ELSE IF o.goal_tracked_team \in {"true", "false"} THEN o.goal_tracked_team = "true"
  ELSE IF c.is_home
       THEN IF c.home_score > s.internal_prev_home_score THEN TRUE
            ELSE IF c.away_score > s.internal_prev_away_score THEN FALSE
            ELSE FALSE
       ELSE IF c.away_score > s.internal_prev_away_score THEN TRUE
            ELSE IF c.home_score > s.internal_prev_home_score THEN FALSE
            ELSE FALSE

\* Lines 684-693: the reset step of nhl_api_sensor_change_callback.
ApiReset(s, o) ==
  IF o.game_id # NoGame /\ o.game_id # s.internal_prev_game_id_for_score_tracking
  THEN [_clear_pending_events(s) EXCEPT
          !.internal_prev_game_id_for_score_tracking = o.game_id,
          !.internal_win_fired_game_id = NoGame,
          !.internal_start_fired_game_id = NoGame]
  ELSE s

\* _fire_puck_drop, called when the sensor goes LIVE from a state that is not live.
_fire_puck_drop(s, c) ==
  IF c.game_id # NoGame /\ s.internal_start_fired_game_id = c.game_id THEN s
  ELSE [Emit(s, "start", "puck_drop", "B", NoEvent, <<c.home_score, c.away_score>>, TRUE,
             0, 0, 0, c.game_id, s.epoch)
          EXCEPT !.internal_start_fired_game_id = c.game_id]

\* Lines 699-700: the baseline takes the scores of the observation.
ApiBaseline(s, c) ==
  [s EXCEPT !.internal_prev_home_score = c.home_score,
            !.internal_prev_away_score = c.away_score]

\* _build_nhl_api_goal_payload
_build_nhl_api_goal_payload(o, c, isMy) ==
  LET scorer == Or(o.scoring_player_name, APlayer)
      sig == <<c.home_score, c.away_score>>
  IN [ptype |-> "goal", is_my_event |-> isMy, my_is_home |-> c.is_home,
      my_score |-> IF c.is_home THEN c.home_score ELSE c.away_score,
      opp_score |-> IF c.is_home THEN c.away_score ELSE c.home_score,
      raw_type |-> "goal", raw_player |-> scorer,
      period_ord |-> o.period_ord, score_sig |-> sig,
      goal_detail |-> _match_goal_detail(o.scoring_detailed, sig, scorer),
      scoring_feed |-> o.scoring_detailed,
      assists |-> o.assists, src |-> "B"]

\* Lines 702-727: an identified goal from Feed B.
ApiGoal(s, o, c) ==
  IF o.goal_event_id = NoEvent \/ o.goal_event_id \in s.nhl_api_goal_ids_processed THEN s
  ELSE
    LET sig == <<c.home_score, c.away_score>>
        payload == _build_nhl_api_goal_payload(o, c, _determine_goal_side(s, o, c))
        popped == IF sig \in DOMAIN s.pending_sb_goal_timers
                  THEN [cancel_timer(s, s.pending_sb_goal_timers[sig]) EXCEPT
                          !.pending_sb_goal_timers = Drop(s.pending_sb_goal_timers, sig)]
                  ELSE s
        raised == [popped EXCEPT
                     !.sb_last_fired_home_away = sig,
                     !.sb_goal_suppress_until_ts = now + cfg.suppress_after_scoreboard_goal_seconds]
        sched == _schedule_event_coalesced(raised, o.goal_event_id, "goal", payload,
                   Max(MinDelay, cfg.coalesce_goal_seconds + _get_broadcast_delay(cfg)))
    IN [sched EXCEPT !.nhl_api_goal_ids_processed = sched.nhl_api_goal_ids_processed \cup {o.goal_event_id}]

\* A win step that lets a tied final score through.
WinOnTie(s, c) ==
  LET my == IF c.is_home THEN c.home_score ELSE c.away_score
      opp == IF c.is_home THEN c.away_score ELSE c.home_score
  IN IF \/ c.game_id = NoGame
        \/ my < opp
        \/ s.internal_win_fired_game_id = c.game_id
        \/ (cfg.celebrate_win_only_if_home /\ ~c.is_home)
     THEN s
     ELSE run_in(s, "win", Max(MinDelay, _get_broadcast_delay(cfg)),
                 [NoTimerArgs EXCEPT !.game_id = c.game_id, !.is_home = c.is_home,
                    !.my_score = my, !.opp_score = opp, !.kind = "B"])

\* _process_nhl_api_win
_process_nhl_api_win(s, c) ==
  LET my == IF c.is_home THEN c.home_score ELSE c.away_score
      opp == IF c.is_home THEN c.away_score ELSE c.home_score
  IN IF \/ c.game_id = NoGame
        \/ my <= opp
        \/ s.internal_win_fired_game_id = c.game_id
        \/ (cfg.celebrate_win_only_if_home /\ ~c.is_home)
     THEN s
     ELSE run_in(s, "win", Max(MinDelay, _get_broadcast_delay(cfg)),
                 [NoTimerArgs EXCEPT !.game_id = c.game_id, !.is_home = c.is_home,
                    !.my_score = my, !.opp_score = opp, !.kind = "B"])

nhl_api_sensor_change_callback(s, o, old, sel) ==
  LET c == _build_nhl_api_context(o, sel)
      r == ApiReset(s, o)
      d == IF o.state = "LIVE" /\ old \notin {"LIVE", "CRIT"} THEN _fire_puck_drop(r, c) ELSE r
      b == ApiBaseline(d, c)
      m == IF r.epoch # s.epoch THEN Snap(b, "api_game_id", o.home_score, o.away_score) ELSE b
      g == ApiGoal(m, o, c)
  IN IF o.state \in {"unknown", "unavailable"} \/ sel = NoTeam \/ ~c.ok THEN s
     ELSE IF o.state \in {"FINAL", "OFF"} THEN _process_nhl_api_win(g, c) ELSE g

\* ------------------------------------------------------------ timer firing
\* Lines 1229-1247: the late-binding read of the Feed A sensor at fire time.
LateBind(payload, event_id, d) ==
  IF d.last_event_id # NoEvent /\ d.last_event_id = event_id
  THEN LET p == [payload EXCEPT
                   !.raw_type = d.last_event.type,
                   !.raw_player = d.last_event.player,
                   !.period_ord = Or(d.period_ord, payload.period_ord)]
       IN IF payload.ptype = "goal"
          THEN [p EXCEPT
                  !.my_score = IF payload.my_is_home THEN d.home_score ELSE d.away_score,
                  !.opp_score = IF payload.my_is_home THEN d.away_score ELSE d.home_score]
          ELSE p
  ELSE payload

\* pending_event_payloads.get(event_id, {}) for an id without a draft
EmptyPayload ==
  [ptype |-> "", is_my_event |-> FALSE, my_is_home |-> FALSE,
   my_score |-> Absent, opp_score |-> Absent, raw_type |-> "", raw_player |-> 0,
   period_ord |-> 0, score_sig |-> NoSig, goal_detail |-> NoDetail,
   scoring_feed |-> NoFeed, assists |-> Absent, src |-> ""]

PayloadSig(payload) ==
  IF payload.my_is_home THEN <<payload.my_score, payload.opp_score>>
  ELSE <<payload.opp_score, payload.my_score>>

\* Lines 1266-1277: the coalesced goal is skipped while the suppression entry
\* names its score.
GoalSuppressed(s, payload) ==
  /\ payload.ptype = "goal"
  /\ now < s.sb_goal_suppress_until_ts
  /\ s.sb_last_fired_home_away = PayloadSig(payload)

\* Lines 1279-1330: the goal is handed to the consumers.
_coalesced_fire_goal(s, event_id, payload, t) ==
  IF GoalSuppressed(s, payload) THEN s
  ELSE
    LET detail == IF payload.goal_detail.found THEN payload.goal_detail
                  ELSE _match_goal_detail(payload.scoring_feed, payload.score_sig, payload.raw_player)
        scorer == Or(detail.scorer, Or(payload.raw_player, APlayer))
        assists == IF payload.assists = Absent THEN 0 ELSE payload.assists
    IN Emit(s, "goal", "coalesced", payload.src, event_id, PayloadSig(payload), payload.is_my_event,
            scorer, assists, payload.period_ord, t.kw.game_id, t.epoch)

\* _coalesced_fire_penalty: every read is a .get, so any payload is accepted.
_coalesced_fire_penalty(s, event_id, payload, t) ==
  Emit(s, "penalty", "coalesced", payload.src, event_id, NoSig, FALSE,
       IF payload.raw_type = "penalty" THEN payload.raw_player ELSE 0,
       0, payload.period_ord, t.kw.game_id, t.epoch)

\* payload["is_my_event"] raises KeyError for a payload built for a penalty.
GoalFireRaises(s, payload) == payload.ptype # "goal" /\ ~GoalSuppressed(s, payload)

\* The fire callback without its record in the fired-event log.
FireWithoutFiredLog(s, h, d) ==
  LET t == s.timers[h]
      event_id == t.kw.event_id
      known == event_id \in DOMAIN s.pending_event_payloads
      payload == LateBind(IF known THEN s.pending_event_payloads[event_id] ELSE EmptyPayload,
                          event_id, d)
      ran == [s EXCEPT !.timers = Drop(s.timers, h)]
      done == IF t.kw.event_type = "goal" THEN _coalesced_fire_goal(ran, event_id, payload, t)
              ELSE _coalesced_fire_penalty(ran, event_id, payload, t)
  IN IF t.kw.event_type = "goal" /\ GoalFireRaises(ran, payload) THEN ran
     ELSE [done EXCEPT
             !.pending_event_timers = Drop(done.pending_event_timers, event_id),
             !.pending_event_payloads = Drop(done.pending_event_payloads, event_id)]

\* A fire step that leaves the draft payload of the fired id behind.
FireLeavesDraft(s, h, d) ==
  LET t == s.timers[h]
      event_id == t.kw.event_id
      known == event_id \in DOMAIN s.pending_event_payloads
      payload == LateBind(IF known THEN s.pending_event_payloads[event_id] ELSE EmptyPayload,
                          event_id, d)
      ran == [s EXCEPT !.timers = Drop(s.timers, h),
                       !.pending_event_payloads =
                          IF known THEN Put(s.pending_event_payloads, event_id, payload)
                          ELSE s.pending_event_payloads]
      done == IF t.kw.event_type = "goal" THEN _coalesced_fire_goal(ran, event_id, payload, t)
              ELSE _coalesced_fire_penalty(ran, event_id, payload, t)
  IN IF t.kw.event_type = "goal" /\ GoalFireRaises(ran, payload) THEN ran
     ELSE [done EXCEPT
             !.fired_event_ids = done.fired_event_ids \cup {event_id},
             !.pending_event_timers = Drop(done.pending_event_timers, event_id)]

_coalesced_fire_callback(s, h, d) ==
  LET t == s.timers[h]
      event_id == t.kw.event_id
      known == event_id \in DOMAIN s.pending_event_payloads
      payload == LateBind(IF known THEN s.pending_event_payloads[event_id] ELSE EmptyPayload,
                          event_id, d)
      ran == [s EXCEPT !.timers = Drop(s.timers, h),
                       !.pending_event_payloads =
                          IF known THEN Put(s.pending_event_payloads, event_id, payload)
                          ELSE s.pending_event_payloads]
      done == IF t.kw.event_type = "goal" THEN _coalesced_fire_goal(ran, event_id, payload, t)
              ELSE _coalesced_fire_penalty(ran, event_id, payload, t)
  IN IF t.kw.event_type = "goal" /\ GoalFireRaises(ran, payload) THEN ran
     ELSE [done EXCEPT
             !.fired_event_ids = done.fired_event_ids \cup {event_id},
             !.pending_event_timers = Drop(done.pending_event_timers, event_id),
             !.pending_event_payloads = Drop(done.pending_event_payloads, event_id)]

\* _coalesced_fire_callback when fire_event raises: _coalesced_fire_penalty
\* catches the exception (line 1431) and the callback goes on to line 1254;
\* _coalesced_fire_goal has no handler around _emit_goal_events (line 1330), so
\* the exception leaves the callback before line 1254. A suppressed goal
\* returns at line 1275 without calling fire_event.
_coalesced_fire_callback_raising(s, h, d) ==
  LET t == s.timers[h]
      event_id == t.kw.event_id
      known == event_id \in DOMAIN s.pending_event_payloads
      payload == LateBind(IF known THEN s.pending_event_payloads[event_id] ELSE EmptyPayload,
                          event_id, d)
      ran == [s EXCEPT !.timers = Drop(s.timers, h),
                       !.pending_event_payloads =
                          IF known THEN Put(s.pending_event_payloads, event_id, payload)
                          ELSE s.pending_event_payloads]
  IN IF t.kw.event_type = "goal" /\ ~GoalSuppressed(ran, payload) THEN ran
     ELSE [ran EXCEPT
             !.fired_event_ids = ran.fired_event_ids \cup {event_id},
             !.pending_event_timers = Drop(ran.pending_event_timers, event_id),
             !.pending_event_payloads = Drop(ran.pending_event_payloads, event_id)]

\* _scoreboard_goal_fire_wrapper with _fire_my_goal_immediate / _fire_opponent_goal_immediate
\* A fallback fire whose dispatch raises and which keeps its registration.
RaisedFireKeepsEntry(s, h) ==
  [s EXCEPT !.timers = Drop(s.timers, h)]

\* Lines 1447-1490 when _fire_my_goal_immediate or _fire_opponent_goal_immediate
\* raises: the two assignments of the try block are skipped, the finally
\* block runs.
_scoreboard_goal_fire_wrapper_raising(s, h) ==
  LET kw == s.timers[h].kw
      ran == [s EXCEPT !.timers = Drop(s.timers, h)]
  IN [ran EXCEPT !.pending_sb_goal_timers = Drop(ran.pending_sb_goal_timers, kw.score_sig)]

_scoreboard_goal_fire_wrapper(s, h) ==
  LET t == s.timers[h]
      kw == t.kw
      detail == IF kw.goal_detail.found THEN kw.goal_detail
                ELSE _match_goal_detail(kw.scoring_feed, kw.score_sig, 0)
      ran == [s EXCEPT !.timers = Drop(s.timers, h)]
      sent == Emit(ran, "goal", "scoreboard", "A", NoEvent, kw.score_sig, kw.kind = "my",
                   Or(detail.scorer, APlayer), 0, kw.period_ord, kw.game_id, t.epoch)
  IN [sent EXCEPT
        !.sb_last_fired_home_away = kw.score_sig,
        !.sb_goal_suppress_until_ts = now + cfg.suppress_after_scoreboard_goal_seconds,
        !.pending_sb_goal_timers = Drop(sent.pending_sb_goal_timers, kw.score_sig)]

\* _fire_win, the closure both feeds schedule for a win
_fire_win(s, h) ==
  LET t == s.timers[h]
      ran == [s EXCEPT !.timers = Drop(s.timers, h)]
  IN [Emit(ran, "win", "win", t.kw.kind, NoEvent, NoSig, TRUE, 0, 0, 0, t.kw.game_id, t.epoch)
        EXCEPT !.internal_win_fired_game_id = t.kw.game_id]

\* team_preset_change_callback, up to the creation of the initial-load task
team_preset_change_callback(s) ==
  Snap([_clear_pending_events(s) EXCEPT
          !.internal_prev_home_score = 0,
          !.internal_prev_away_score = 0,
          !.internal_prev_game_id_for_score_tracking = NoGame,
          !.internal_win_fired_game_id = NoGame,
          !.internal_start_fired_game_id = NoGame],
       "preset", 0, 0)

\* _process_initial_state on the Feed A sensor's current state
_process_initial_state(s, d) ==
  Snap([_clear_pending_events(s) EXCEPT
          !.internal_prev_home_score = d.home_score,
          !.internal_prev_away_score = d.away_score,
          !.internal_prev_game_id_for_score_tracking = d.game_id,
          !.internal_win_fired_game_id = NoGame,
          !.internal_start_fired_game_id = NoGame],
       "initial_load", d.home_score, d.away_score)

\* ------------------------------------------------------------ observations
NoGameObs ==
  [game_id |-> NoGame, state |-> "NO_GAME", home_score |-> 0, away_score |-> 0,
   last_event_id |-> NoEvent, last_event |-> NoLastEvent, period_ord |-> 0,
   scoring_detailed |-> NoFeed]

DashEvents(ids, types, players) ==
  {<<NoEvent, NoLastEvent>>} \cup
  {<<e, [type |-> ty, team |-> "", player |-> pl]>> :
     e \in ids, ty \in types, pl \in players}

\* An observation's state stands for the sensor state and, in Feed A, for the
\* game_state_api attribute the sensor state is derived from.
DashObs(games, states, events, periods, feeds) ==
  {[game_id |-> g, state |-> st, home_score |-> sg[1], away_score |-> sg[2],
    last_event_id |-> ev[1], last_event |-> ev[2], period_ord |-> pd,
    scoring_detailed |-> fd] :
     g \in games, st \in states, sg \in Sigs, ev \in events,
     pd \in periods, fd \in feeds}

ApiObs(games, states, goalIds, tags, flags, scorers, assists) ==
  {[game_id |-> g, state |-> st, home_score |-> sg[1], away_score |-> sg[2],
    goal_event_id |-> e, goal_team_abbrev |-> tg, goal_tracked_team |-> fl,
    scoring_player_name |-> sc, assists |-> as, team_abbrev |-> "",
    period_ord |-> 1, scoring_detailed |-> NoFeed] :
     g \in games, st \in states, sg \in Sigs, e \in goalIds, tg \in tags,
     fl \in flags, sc \in scorers, as \in assists}

\* One live game seen by both feeds, with goals and penalties that carry ids,
\* score-only updates, and Feed A's "no game" publication.
CoreDashObs ==
  {NoGameObs} \cup
  DashObs({"g1"}, {"LIVE"},
          {<<NoEvent, NoLastEvent>>,
           <<"e1", [type |-> "goal", team |-> "", player |-> 1]>>,
           <<"e2", [type |-> "penalty", team |-> "", player |-> 1]>>},
          {1}, {NoFeed})
CoreApiObs == ApiObs({"g1"}, {"LIVE"}, {NoEvent} \cup EventIds, {""}, {"none"}, {1}, {1})

\* ----------------------------------------------------------------- actions
DashboardSensorChange(o) ==
  /\ obsLeft > 0
  /\ obsLeft' = obsLeft - 1
  /\ dash' = o
  /\ Commit(dashboard_sensor_change_callback(Self, o, selected))
  /\ UNCHANGED <<goalApp, dashMgr, cfg, now, selected, apiState, initLoadPending, presetChangesLeft>>

NhlApiSensorChange(o) ==
  /\ obsLeft > 0
  /\ obsLeft' = obsLeft - 1
  /\ apiState' = o.state
  /\ Commit(nhl_api_sensor_change_callback(Self, o, apiState, selected))
  /\ UNCHANGED <<goalApp, dashMgr, cfg, now, selected, dash, initLoadPending, presetChangesLeft>>

Due(h) == h \in DOMAIN timers /\ timers[h].due <= now

CoalescedFire(h) ==
  /\ Due(h) /\ timers[h].cb = "coalesced"
  /\ Commit(_coalesced_fire_callback(Self, h, dash))
  /\ UNCHANGED <<goalApp, dashMgr, cfg, now, selected, dash, apiState, initLoadPending, obsLeft, presetChangesLeft>>

CoalescedFireRaises(h) ==
  /\ Due(h) /\ timers[h].cb = "coalesced"
  /\ Commit(_coalesced_fire_callback_raising(Self, h, dash))
  /\ UNCHANGED <<goalApp, dashMgr, cfg, now, selected, dash, apiState, initLoadPending, obsLeft, presetChangesLeft>>

ScoreboardGoalFire(h) ==
  /\ Due(h) /\ timers[h].cb = "sb_goal"
  /\ Commit(_scoreboard_goal_fire_wrapper(Self, h))
  /\ UNCHANGED <<goalApp, dashMgr, cfg, now, selected, dash, apiState, initLoadPending, obsLeft, presetChangesLeft>>

ScoreboardGoalFireRaises(h) ==
  /\ Due(h) /\ timers[h].cb = "sb_goal"
  /\ Commit(_scoreboard_goal_fire_wrapper_raising(Self, h))
  /\ UNCHANGED <<goalApp, dashMgr, cfg, now, selected, dash, apiState, initLoadPending, obsLeft, presetChangesLeft>>

WinFire(h) ==
  /\ Due(h) /\ timers[h].cb = "win"
  /\ Commit(_fire_win(Self, h))
  /\ UNCHANGED <<goalApp, dashMgr, cfg, now, selected, dash, apiState, initLoadPending, obsLeft, presetChangesLeft>>

TeamPresetChange(team) ==
  /\ presetChangesLeft > 0
  /\ team # selected /\ team # NoTeam
  /\ presetChangesLeft' = presetChangesLeft - 1
  /\ selected' = team
  /\ initLoadPending' = TRUE
  /\ Commit(team_preset_change_callback(Self))
  /\ UNCHANGED <<goalApp, dashMgr, cfg, now, dash, apiState, obsLeft>>

InitialStateLoad ==
  /\ initLoadPending
  /\ initLoadPending' = FALSE
  /\ Commit(_process_initial_state(Self, dash))
  /\ UNCHANGED <<goalApp, dashMgr, cfg, now, selected, dash, apiState, obsLeft, presetChangesLeft>>

\* Time passes only when no timer is due: a timer fires at its deadline.
Tick ==
  /\ now < MaxTime
  /\ \A h \in DOMAIN timers : timers[h].due > now
  /\ now' = now + 1
  /\ UNCHANGED <<goalApp, dashMgr, cfg, selected, appVars, dash, apiState, initLoadPending, obsLeft, presetChangesLeft>>

\* ------------------------------------------- the goal app (nhl_goal_app.py)
\* Delays in ticks; they keep the order of the delays of the source.
HornPlayDelay == 1          \* run_horn_sequence: 0.3 s
LightshowStartDelay == 2    \* LIGHTSHOW_START_DELAY: 0.4 s
HornMainDuration == 1       \* horn_base_duration_seconds
HornFadeInterval == 1       \* horn_fade_step_interval_seconds, one fade step
TtsAfterHornDelay == 4      \* _tts_delay_after_horn with the horn on
TtsNoHornDelay == 3         \* _tts_delay_after_horn with the horn off: 0.6 s
WinTtsDelay == 3            \* team_win_callback: 1.0 s
FlashOffDelay == 1          \* opponent_goal_callback: d + 0.2
FlashDuration == 2          \* opponent_goal_callback: num_flashes * 0.4
MaxGoalEvents == 3
MaxGoalTime == 5

\* initialize, lines 93-96, and the timers AppDaemon holds for the app.
\* celebrations counts the goal, win and opponent-goal events received;
\* scheduled remembers for every handle the event count it was created under.
GoalAppIdle ==
  [horn_active_timers |-> <<>>,
   lightshow_active_timers |-> <<>>,
   lightshow_currently_running_for_team |-> "",
   timers |-> EmptyMap,
   nextHandle |-> 1,
   celebrations |-> 0,
   scheduled |-> EmptyMap,
   eventsLeft |-> MaxGoalEvents]

SeqRange(q) == {q[i] : i \in DOMAIN q}

\* self.run_in(cb, delay) for the celebration ev, appended to the list named.
GoalRunIn(g, list, cb, delay, ev) ==
  LET h == g.nextHandle
      r == [g EXCEPT
              !.timers = Put(g.timers, h, [cb |-> cb, due |-> now + delay, celebration |-> ev]),
              !.scheduled = Put(g.scheduled, h, [cb |-> cb, due |-> now + delay, celebration |-> ev]),
              !.nextHandle = h + 1]
  IN IF list = "horn" THEN [r EXCEPT !.horn_active_timers = Append(r.horn_active_timers, h)]
     ELSE IF list = "light"
     THEN [r EXCEPT !.lightshow_active_timers = Append(r.lightshow_active_timers, h)]
     ELSE r

\* A pre-emption that forgets the lists without cancelling their timers.
ClearWithoutCancel(g) ==
  [g EXCEPT !.lightshow_active_timers = <<>>, !.horn_active_timers = <<>>]

\* cancel_ongoing_celebrations
cancel_ongoing_celebrations(g) ==
  LET tracked == SeqRange(g.lightshow_active_timers) \cup SeqRange(g.horn_active_timers)
  IN [g EXCEPT
        !.timers = [h \in (DOMAIN g.timers) \ tracked |-> g.timers[h]],
        !.lightshow_active_timers = <<>>,
        !.horn_active_timers = <<>>]

\* run_horn_sequence
run_horn_sequence(g, ev) == GoalRunIn(g, "horn", "play_horn_media_action", HornPlayDelay, ev)

\* _start_full_celebration
_start_full_celebration(g, horn, lights, ev) ==
  LET c == cancel_ongoing_celebrations(g)
      h == IF horn THEN run_horn_sequence(c, ev) ELSE c
  IN IF lights THEN GoalRunIn(h, "light", "start_lightshow_callback", LightshowStartDelay, ev)
     ELSE h

\* _tts_delay_after_horn
_tts_delay_after_horn(horn) == IF horn THEN TtsAfterHornDelay ELSE TtsNoHornDelay

\* goal_event_callback; an event without a usable team name is dropped
\* (lines 155-162) and starts no celebration.
goal_event_callback(g, named, horn, lights, tts) ==
  LET ev == g.celebrations + 1
      s == _start_full_celebration([g EXCEPT !.celebrations = ev], horn, lights, ev)
  IN IF ~named THEN g
     ELSE IF tts THEN GoalRunIn(s, "light", "tts", _tts_delay_after_horn(horn), ev) ELSE s

\* team_win_callback; an event without a team name is dropped (lines 214-215).
team_win_callback(g, named, horn, lights, tts) ==
  LET ev == g.celebrations + 1
      s == _start_full_celebration([g EXCEPT !.celebrations = ev], horn, lights, ev)
  IN IF ~named THEN g
     ELSE IF tts THEN GoalRunIn(s, "light", "tts", WinTtsDelay, ev) ELSE s

\* opponent_goal_callback, with one of its four flashes
opponent_goal_callback(g, lights, tts) ==
  LET ev == g.celebrations + 1
      c == cancel_ongoing_celebrations([g EXCEPT !.celebrations = ev])
      f1 == GoalRunIn(c, "light", "light", 0, ev)
      f2 == GoalRunIn(f1, "light", "light", FlashOffDelay, ev)
      f3 == GoalRunIn(f2, "light", "light", FlashDuration, ev)
      l == IF lights THEN f3 ELSE c
      flash_duration == IF lights THEN FlashDuration ELSE 0
  IN IF tts THEN GoalRunIn(l, "light", "tts", flash_duration + 1, ev) ELSE l

\* penalty_event_callback, with the first and the last of its four timers
penalty_event_callback(g, lights) ==
  IF ~lights THEN g
  ELSE GoalRunIn(GoalRunIn(g, "light", "light", 0, g.celebrations),
                 "light", "light", 1, g.celebrations)

\* play_horn_media_action: one fade step and the final stop, or the list
\* cleared when play_media raises.
play_horn_media_action(g, ev, played) ==
  IF ~played THEN [g EXCEPT !.horn_active_timers = <<>>]
  ELSE GoalRunIn(GoalRunIn(g, "horn", "horn_fade_step_action", HornMainDuration, ev),
                 "horn", "horn_final_stop_action",
                 HornMainDuration + HornFadeInterval + 1, ev)

\* horn_final_stop_action: an untracked media_stop timer, the list cleared.
horn_final_stop_action(g, ev) ==
  [GoalRunIn(g, "none", "untracked", 1, ev) EXCEPT !.horn_active_timers = <<>>]

\* start_main_lightshow_sequence, with the first step, the final white hold
\* and the force-finish timer of its schedule
start_main_lightshow_sequence(g, ev) ==
  LET a == [g EXCEPT !.lightshow_currently_running_for_team = "MY"]
      b == GoalRunIn(a, "light", "light", 0, ev)
      c == GoalRunIn(b, "light", "light", 1, ev)
  IN GoalRunIn(c, "light", "_force_finish_white", 2, ev)

\* _force_finish_white
_force_finish_white(g) ==
  [g EXCEPT
     !.timers = [h \in (DOMAIN g.timers) \ SeqRange(g.lightshow_active_timers) |-> g.timers[h]],
     !.lightshow_active_timers = <<>>,
     !.lightshow_currently_running_for_team = ""]

\* tts_trigger_callback and _send_tts: an untracked volume timer
tts_trigger_callback(g, ev) == GoalRunIn(g, "none", "untracked", 1, ev)

\* The callback of the timer h, which leaves the scheduler as it fires.
GoalTimerFires(g, h, played) ==
  LET t == g.timers[h]
      r == [g EXCEPT !.timers = Drop(g.timers, h)]
  IN CASE t.cb = "play_horn_media_action" -> play_horn_media_action(r, t.celebration, played)
       [] t.cb = "horn_final_stop_action" -> horn_final_stop_action(r, t.celebration)
       [] t.cb = "start_lightshow_callback" -> start_main_lightshow_sequence(r, t.celebration)
       [] t.cb = "_force_finish_white" -> _force_finish_white(r)
       [] t.cb = "tts" -> tts_trigger_callback(r, t.celebration)
       [] OTHER -> r

engineVars == <<cfg, selected, appVars, dash, apiState, initLoadPending,
                obsLeft, presetChangesLeft>>

GoalEvent(named, horn, lights, tts) ==
  /\ goalApp.eventsLeft > 0
  /\ goalApp' = [goal_event_callback(goalApp, named, horn, lights, tts) EXCEPT
                   !.eventsLeft = goalApp.eventsLeft - 1]
  /\ UNCHANGED <<engineVars, dashMgr, now>>

TeamWinEvent(named, horn, lights, tts) ==
  /\ goalApp.eventsLeft > 0
  /\ goalApp' = [team_win_callback(goalApp, named, horn, lights, tts) EXCEPT
                   !.eventsLeft = goalApp.eventsLeft - 1]
  /\ UNCHANGED <<engineVars, dashMgr, now>>

OpponentGoalEvent(lights, tts) ==
  /\ goalApp.eventsLeft > 0
  /\ goalApp' = [opponent_goal_callback(goalApp, lights, tts) EXCEPT
                   !.eventsLeft = goalApp.eventsLeft - 1]
  /\ UNCHANGED <<engineVars, dashMgr, now>>

PenaltyEvent(lights) ==
  /\ goalApp.eventsLeft > 0
  /\ goalApp' = [penalty_event_callback(goalApp, lights) EXCEPT
                   !.eventsLeft = goalApp.eventsLeft - 1]
  /\ UNCHANGED <<engineVars, dashMgr, now>>

GoalAppTimerFire(h, played) ==
  /\ h \in DOMAIN goalApp.timers
  /\ goalApp.timers[h].due <= now
  /\ goalApp' = GoalTimerFires(goalApp, h, played)
  /\ UNCHANGED <<engineVars, dashMgr, now>>

GoalAppTick ==
  /\ now < MaxGoalTime
  /\ \A h \in DOMAIN goalApp.timers : goalApp.timers[h].due > now
  /\ now' = now + 1
  /\ UNCHANGED <<engineVars, dashMgr, goalApp>>

\* ---------------------------- the dashboard manager (nhl_dashboard_manager.py)
\* Refresh intervals in ticks; they keep the order of the defaults of the source.
MinRefreshInterval == 1      \* _schedule_next_refresh: max(interval_seconds, 3)
RefreshIntervalLive == 1     \* refresh_interval_live
RefreshIntervalError == 2    \* refresh_interval_error
RefreshIntervalUpcoming == 2 \* refresh_interval_upcoming
RefreshIntervalOff == 3      \* refresh_interval_off
MaxSelections == 2
MaxMgrTime == 4

\* What the preset entity may hold: no team, a team of NHL_TEAM_DETAILS_MAP,
\* a name that is not in the map.
Presets == {"none", "MY", "XX"}
FetchOutcomes == {"LIVE", "UPCOMING", "FINAL", "no_game", "error"}

\* initialize: no timer, the task _initial_setup created. tasks holds the
\* coroutines suspended at an await; completed counts the fetch cycles that
\* have ended, replaced the running timers that _schedule_next_refresh
\* cancelled.
DashMgrIdle ==
  [timer_handle |-> 0,
   timers |-> EmptyMap,
   nextHandle |-> 1,
   preset |-> "MY",
   tasks |-> Put(EmptyMap, 1, [kind |-> "initial", pc |-> "get_state", team |-> ""]),
   nextTask |-> 2,
   completed |-> 0,
   replaced |-> 0,
   selectionsLeft |-> MaxSelections]

\* A scheduling step that leaves the previous timer running.
ScheduleWithoutCancel(m, interval_seconds) ==
  LET h == m.nextHandle
  IN [m EXCEPT
        !.timers = Put(m.timers, h, [due |-> now + Max(interval_seconds, MinRefreshInterval)]),
        !.timer_handle = h,
        !.nextHandle = h + 1]

\* _schedule_next_refresh
_schedule_next_refresh(m, interval_seconds) ==
  LET running == m.timer_handle # 0 /\ m.timer_handle \in DOMAIN m.timers
      c == IF running
           THEN [m EXCEPT !.timers = Drop(m.timers, m.timer_handle),
                          !.replaced = m.replaced + 1]
           ELSE m
      h == c.nextHandle
  IN [c EXCEPT
        !.timers = Put(c.timers, h, [due |-> now + Max(interval_seconds, MinRefreshInterval)]),
        !.timer_handle = h,
        !.nextHandle = h + 1]

\* _determine_refresh_interval
_determine_refresh_interval(state) ==
  IF state = "LIVE" THEN RefreshIntervalLive
  ELSE IF state = "UPCOMING" THEN RefreshIntervalUpcoming
  ELSE RefreshIntervalOff

\* _get_team_abbrev_from_preset: None for a name outside NHL_TEAM_DETAILS_MAP
_get_team_abbrev_from_preset(preset_name) ==
  IF preset_name = "MY" THEN "MY" ELSE ""

\* The end of a cycle of the coroutine id: it leaves the task table.
CycleEnds(m, id) ==
  [m EXCEPT !.tasks = Drop(m.tasks, id), !.completed = m.completed + 1]

\* fetch_and_update_data_for_team up to its first await: a preset without an
\* abbreviation ends the cycle at once, another one suspends in the fetch.
BeginFetch(m, id, team_name_preset) ==
  IF _get_team_abbrev_from_preset(team_name_preset) = ""
  THEN CycleEnds(_schedule_next_refresh(m, RefreshIntervalError), id)
  ELSE [m EXCEPT !.tasks = Put(m.tasks, id, [m.tasks[id] EXCEPT !.pc = "fetch",
                                                               !.team = team_name_preset])]

\* fetch_and_update_data_for_team after its awaits, for each way they end.
fetch_and_update_data_for_team(m, id, outcome) ==
  LET interval == IF outcome = "no_game" THEN RefreshIntervalOff
                  ELSE IF outcome = "error" THEN RefreshIntervalError
                  ELSE _determine_refresh_interval(outcome)
  IN CycleEnds(_schedule_next_refresh(m, interval), id)

\* _initial_setup and scheduled_refresh_callback after `await self.get_state`.
scheduled_refresh_callback(m, id) ==
  IF m.preset # "none" THEN BeginFetch(m, id, m.preset)
  ELSE CycleEnds(_schedule_next_refresh(m, RefreshIntervalOff), id)

\* scheduled_refresh_callback_wrapper, for the timer h that fires
scheduled_refresh_callback_wrapper(m, h) ==
  [m EXCEPT
     !.timers = Drop(m.timers, h),
     !.timer_handle = 0,
     !.tasks = Put(m.tasks, m.nextTask, [kind |-> "refresh", pc |-> "get_state", team |-> ""]),
     !.nextTask = m.nextTask + 1]

\* team_selection_changed_callback up to its first await
team_selection_changed_callback(m, new_state) ==
  LET c == IF m.timer_handle # 0 /\ m.timer_handle \in DOMAIN m.timers
           THEN [m EXCEPT !.timers = Drop(m.timers, m.timer_handle)]
           ELSE m
      id == c.nextTask
      t == [c EXCEPT
              !.tasks = Put(c.tasks, id, [kind |-> "selection", pc |-> "start", team |-> ""]),
              !.nextTask = id + 1]
  IN IF new_state # "none" THEN BeginFetch(t, id, new_state)
     ELSE CycleEnds(_schedule_next_refresh(t, RefreshIntervalOff), id)

TeamSelectionChanged(new_state) ==
  /\ dashMgr.selectionsLeft > 0
  /\ new_state # dashMgr.preset
  /\ dashMgr' = team_selection_changed_callback(
                  [dashMgr EXCEPT !.preset = new_state,
                                  !.selectionsLeft = dashMgr.selectionsLeft - 1],
                  new_state)
  /\ UNCHANGED <<engineVars, goalApp, now>>

PresetRead(id) ==
  /\ id \in DOMAIN dashMgr.tasks
  /\ dashMgr.tasks[id].pc = "get_state"
  /\ dashMgr' = scheduled_refresh_callback(dashMgr, id)
  /\ UNCHANGED <<engineVars, goalApp, now>>

FetchReturns(id, outcome) ==
  /\ id \in DOMAIN dashMgr.tasks
  /\ dashMgr.tasks[id].pc = "fetch"
  /\ dashMgr' = fetch_and_update_data_for_team(dashMgr, id, outcome)
  /\ UNCHANGED <<engineVars, goalApp, now>>

RefreshTimerFires(h) ==
  /\ h \in DOMAIN dashMgr.timers
  /\ dashMgr.timers[h].due <= now
  /\ dashMgr' = scheduled_refresh_callback_wrapper(dashMgr, h)
  /\ UNCHANGED <<engineVars, goalApp, now>>

MgrTick ==
  /\ now < MaxMgrTime
  /\ \A h \in DOMAIN dashMgr.timers : dashMgr.timers[h].due > now
  /\ now' = now + 1
  /\ UNCHANGED <<engineVars, goalApp, dashMgr>>

Teams == {"MY", "OTH"}

InitApp ==
  /\ internal_prev_home_score = 0
  /\ internal_prev_away_score = 0
  /\ internal_prev_game_id_for_score_tracking = NoGame
  /\ internal_win_fired_game_id = NoGame
  /\ internal_start_fired_game_id = NoGame
  /\ nhl_api_goal_ids_processed = {}
  /\ pending_event_timers = EmptyMap
  /\ pending_event_payloads = EmptyMap
  /\ fired_event_ids = {}
  /\ sb_goal_suppress_until_ts = 0
  /\ sb_last_fired_home_away = NoSig
  /\ pending_sb_goal_timers = EmptyMap
  /\ timers = EmptyMap
  /\ nextHandle = 1
  /\ log = <<>>
  /\ epoch = 0
  /\ resetSnap = NoSnap
  /\ now = 0
  /\ initLoadPending = TRUE
  /\ apiState = "unknown"
  /\ selected = "MY"
  /\ goalApp = GoalAppIdle
  /\ dashMgr = DashMgrIdle

MidGameObs ==
  [game_id |-> "g1", state |-> "LIVE", home_score |-> 1, away_score |-> 0,
   last_event_id |-> "e1", last_event |-> [type |-> "goal", team |-> "", player |-> 1],
   period_ord |-> 1, scoring_detailed |-> NoFeed]

InitWith(configs, sensor) ==
  /\ InitApp
  /\ cfg \in configs
  /\ dash \in sensor
  /\ obsLeft = MaxObs
  /\ presetChangesLeft = MaxPresetChanges

Init == InitWith(Configs({2, 4}, {0, 1}, {TRUE}), {NoGameObs, MidGameObs})

Next ==
  \/ \E o \in CoreApiObs : NhlApiSensorChange(o)
  \/ \E o \in CoreDashObs : DashboardSensorChange(o)
  \/ \E h \in DOMAIN timers : CoalescedFire(h)
  \/ \E h \in DOMAIN timers : ScoreboardGoalFire(h)
  \/ InitialStateLoad
  \/ Tick

Spec == Init /\ [][Next]_vars

\* ------------------------------------------- a game that ends or is replaced
\* The tracked team is at home in g1 and scores the only goal; the game goes
\* final on either feed, is replaced by g2 (already 0-1 on arrival), or the team
\* selection changes.
Live00Obs == [NoGameObs EXCEPT !.game_id = "g1", !.state = "LIVE", !.period_ord = 1]

SessionDashObs ==
  {o \in DashObs({"g1"}, {"LIVE", "FINAL"}, {<<NoEvent, NoLastEvent>>}, {1}, {NoFeed}) :
     o.away_score = 0 /\ (o.state = "LIVE" \/ o.home_score = 1)} \cup
  {o \in DashObs({"g2"}, {"LIVE"}, {<<NoEvent, NoLastEvent>>}, {1}, {NoFeed}) :
     o.away_score = 1}

SessionApiObs ==
  {o \in ApiObs({"g1"}, {"LIVE"}, {NoEvent}, {""}, {"none"}, {1}, {1}) : o.away_score = 0} \cup
  {o \in ApiObs({"g1"}, {"LIVE", "FINAL"}, {NoEvent, "e1"}, {""}, {"none"}, {1}, {1}) :
     o.home_score = 1 /\ (o.state = "FINAL" \/ o.goal_event_id = "e1")} \cup
  {o \in ApiObs({"g2"}, {"LIVE"}, {NoEvent}, {""}, {"none"}, {1}, {1}) : o.away_score = 1}

InitSession == InitWith(Configs({2}, {0, 1}, {TRUE}), {NoGameObs, Live00Obs})

NextSession ==
  \/ \E o \in SessionDashObs : DashboardSensorChange(o)
  \/ \E o \in SessionApiObs : NhlApiSensorChange(o)
  \/ \E h \in DOMAIN timers : CoalescedFire(h)
  \/ \E h \in DOMAIN timers : ScoreboardGoalFire(h)
  \/ \E h \in DOMAIN timers : WinFire(h)
  \/ \E team \in Teams : TeamPresetChange(team)
  \/ InitialStateLoad
  \/ Tick

SpecSession == InitSession /\ [][NextSession]_vars

\* ------------------------------------------- a goal whose detail is revised
\* Feed A revises the scorer of e1 and publishes a scoring feed; the game may
\* go final while the goal is pending.
OneGoalFeed == [has |-> TRUE, sig |-> <<1, 0>>, scorer |-> 1]

DetailDashObs ==
  {o \in DashObs({"g1"}, {"LIVE", "FINAL"}, DashEvents({"e1"}, {"goal"}, Names), {1},
                 {OneGoalFeed}) :
     o.away_score = 0 /\ (o.last_event_id = NoEvent \/ o.home_score = 1)}

DetailApiObs ==
  {o \in ApiObs({"g1"}, {"LIVE"}, {NoEvent, "e1"}, {""}, {"none"}, {1}, {1}) :
     o.away_score = 0}

InitDetail == InitWith(Configs({2}, {0}, {TRUE}), {NoGameObs})

NextDetail ==
  \/ \E o \in DetailDashObs : DashboardSensorChange(o)
  \/ \E o \in DetailApiObs : NhlApiSensorChange(o)
  \/ \E h \in DOMAIN timers : CoalescedFire(h)
  \/ \E h \in DOMAIN timers : ScoreboardGoalFire(h)
  \/ \E h \in DOMAIN timers : WinFire(h)
  \/ InitialStateLoad
  \/ Tick

SpecDetail == InitDetail /\ [][NextDetail]_vars

\* ================================================================== claims
Entries == DOMAIN log
Events(kinds) == {i \in Entries : log[i].kind \in kinds}
GoalsFor(sig, ep) == {i \in Events({"goal"}) : log[i].sig = sig /\ log[i].epoch = ep}

\* C1: within one session an event id is handed to the consumers at most once,
\* however often the two feeds observe it and however the observations and the
\* timer firings interleave.
AtMostOncePerEventId ==
  \A i, j \in Events({"goal", "penalty"}) :
    (log[i].id = log[j].id /\ log[i].id # NoEvent /\ log[i].epoch = log[j].epoch) => i = j

\* C1 witness: an id both feeds observed in the current session has been
\* dispatched, and every observation of the run has been delivered.
BothFeedsSawDispatchedId ==
  /\ obsLeft = 0
  /\ dash.last_event_id = "e1"
  /\ "e1" \in nhl_api_goal_ids_processed
  /\ "e1" \in fired_event_ids
  /\ \E i \in Events({"goal"}) : log[i].id = "e1" /\ log[i].epoch = epoch

\* C2: when Feed A's scoreboard fallback and Feed B's identified goal report the
\* same score signature, at most one goal is dispatched for it, whatever the
\* delays and the suppression ttl are: once the fallback has dispatched the
\* signature, Feed B's goal for it is not dispatched as well.
OneDispatchPerSignatureAcrossFeeds ==
  \A i, j \in Events({"goal"}) :
    ~ /\ i < j
      /\ log[i].path = "scoreboard"
      /\ log[j].path = "coalesced" /\ log[j].src = "B"
      /\ log[i].sig = log[j].sig
      /\ log[i].epoch = log[j].epoch

\* C3: a goal Feed B reports under a new id is dispatched when its coalescing
\* timer fires, unless the scoreboard fallback already dispatched its score or a
\* reset intervened.  The case is a session that began at 0-0 and a goal that
\* raised the score.
FeedBGoalDispatchedAtFire ==
  [][\A e \in EventIds :
       ( /\ e \in fired_event_ids' /\ e \notin fired_event_ids
         /\ e \in DOMAIN pending_event_payloads
         /\ pending_event_payloads[e].src = "B"
         /\ timers[pending_event_timers[e]].kw.event_type = "goal"
         /\ resetSnap.obs_home + resetSnap.obs_away = 0
         /\ pending_event_payloads[e].score_sig # <<0, 0>>
         /\ GoalsFor(pending_event_payloads[e].score_sig, epoch) = {} )
       => /\ Len(log') = Len(log) + 1
          /\ log'[Len(log')].kind = "goal"
          /\ log'[Len(log')].id = e]_vars

\* C4: for one game the tracked team wins at home, the win is dispatched once,
\* however many terminal observations the feeds deliver and however they
\* interleave with the delayed win timers.
WinDispatchedOncePerGame ==
  \A i, j \in Events({"win"}) :
    (log[i].game_id = log[j].game_id /\ log[i].epoch = log[j].epoch) => i = j

\* C5: within one game the score baseline never decreases; a lower score from
\* either feed forces a session reset instead.
BaselineNeverDecreases ==
  [][(epoch' = epoch)
       => /\ internal_prev_home_score' >= internal_prev_home_score
          /\ internal_prev_away_score' >= internal_prev_away_score]_vars

\* C6: the observation that creates a session with a score already on the board
\* schedules no goal, identified or fallback.
GoalTimers(tm) == {h \in DOMAIN tm : tm[h].cb = "sb_goal" \/ tm[h].kw.event_type = "goal"}
NoGoalFromBaselineObservation ==
  [][( /\ epoch' # epoch
       /\ obsLeft' # obsLeft
       /\ resetSnap'.obs_home + resetSnap'.obs_away > 0 )
       => GoalTimers(timers') = {}]_vars

\* C7: the reset step for a new game_id or a changed team selection leaves the
\* fired-event log empty, no pending identified event, no pending fallback
\* timer and no suppression entry; for a new game_id the baseline is the score
\* of the observation.
ResetLeavesSessionEmpty ==
  resetSnap.cause \in {"dash_game_id", "api_game_id", "preset"} =>
    /\ resetSnap.fired_event_ids = {}
    /\ resetSnap.pending_ids = {}
    /\ resetSnap.event_timers = {}
    /\ resetSnap.pending_sigs = {}
    /\ resetSnap.fallback_timers = {}
    /\ resetSnap.sb_goal_suppress_until_ts = 0
    /\ resetSnap.sb_last_fired_home_away = NoSig
    /\ (resetSnap.cause # "preset" =>
          /\ resetSnap.prev_home = resetSnap.obs_home
          /\ resetSnap.prev_away = resetSnap.obs_away)

\* C8: nothing whose timer was scheduled before a session reset is dispatched
\* after it: every dispatch belongs to the session that scheduled it.
NoDispatchAcrossReset ==
  \A i \in Entries : log[i].schedEpoch = log[i].epoch

\* C9: when an identified goal fires while the Feed A sensor still names its id
\* and names a scorer, the dispatched scorer is the one the sensor names at fire
\* time.
FireTimeDetailDispatched ==
  [][( /\ Len(log') = Len(log) + 1
       /\ log'[Len(log')].kind = "goal"
       /\ log'[Len(log')].path = "coalesced"
       /\ log'[Len(log')].id = dash.last_event_id
       /\ dash.last_event.player # 0 )
       => log'[Len(log')].player = dash.last_event.player]_vars

\* C10: merging an observation into a pending draft keeps every field the draft
\* has and the new payload lacks; here the assists Feed B supplied, which Feed A's
\* payload never carries.
MergeKeepsDraftFields ==
  [][\A e \in (DOMAIN pending_event_payloads) \cap (DOMAIN pending_event_payloads') :
       ( /\ epoch' = epoch /\ obsLeft' # obsLeft
         /\ pending_event_payloads'[e].ptype = pending_event_payloads[e].ptype
         /\ pending_event_payloads[e].assists # Absent )
         => pending_event_payloads'[e].assists = pending_event_payloads[e].assists]_vars

\* C11: an observation that arrives while an id has a running timer leaves that
\* timer as it is, deadline included, and leaves the id with that one timer,
\* unless the observation resets the session.
TimersOf(tm, e) == {h \in DOMAIN tm : tm[h].cb = "coalesced" /\ tm[h].kw.event_id = e}
PendingTimerKeepsDeadline ==
  [][\A e \in EventIds :
       ( /\ obsLeft' # obsLeft /\ epoch' = epoch
         /\ e \in DOMAIN pending_event_timers
         /\ pending_event_timers[e] \in DOMAIN timers )
       => /\ e \in DOMAIN pending_event_timers'
          /\ pending_event_timers'[e] = pending_event_timers[e]
          /\ pending_event_timers[e] \in DOMAIN timers'
          /\ timers'[pending_event_timers[e]] = timers[pending_event_timers[e]]
          /\ TimersOf(timers', e) = {pending_event_timers[e]}]_vars

\* C11 witness: e1, scheduled by Feed B, was observed again by Feed A while its
\* timer was running; the timer is still there, one tick from its deadline.
ReobservedWhilePending ==
  /\ "e1" \in DOMAIN pending_event_timers
  /\ pending_event_timers["e1"] \in DOMAIN timers
  /\ timers[pending_event_timers["e1"]].due = now + 1
  /\ "e1" \in nhl_api_goal_ids_processed
  /\ pending_event_payloads["e1"].src = "A"
  /\ dash.last_event_id = "e1"


\* C12: scheduling an id that is in the fired-event log changes nothing: no
\* payload is stored, no timer is created, and the fired log, the suppression
\* state and the other pending events stay as they are.
SamplePayloads ==
  {EmptyPayload,
   [EmptyPayload EXCEPT !.ptype = "goal", !.src = "B", !.my_score = 1, !.opp_score = 0,
                        !.my_is_home = TRUE, !.score_sig = <<1, 0>>, !.assists = 1],
   [EmptyPayload EXCEPT !.ptype = "penalty", !.src = "A", !.raw_type = "penalty",
                        !.raw_player = 1]}
ScheduleFiredIdIsNoOp ==
  \A e \in fired_event_ids, ty \in {"goal", "penalty"}, p \in SamplePayloads, d \in 0..2 :
    _schedule_event_coalesced(Self, e, ty, p, d) = Self

\* C12 witness: e1 is in the fired log while another event is pending with a
\* running timer and a suppression entry is active.
FiredIdBesidePendingEvent ==
  /\ "e1" \in fired_event_ids
  /\ "e2" \in DOMAIN pending_event_timers
  /\ pending_event_timers["e2"] \in DOMAIN timers
  /\ "e2" \in DOMAIN pending_event_payloads
  /\ sb_goal_suppress_until_ts > now
  /\ sb_last_fired_home_away # NoSig


\* C13: a scoreboard-fallback timer that comes due while an unexpired
\* suppression entry names exactly its score signature dispatches nothing.  The
\* case is an entry left by a goal already dispatched for that signature.
SuppressedFallbackDispatchesNothing ==
  [][( /\ obsLeft' = obsLeft /\ epoch' = epoch
       /\ GoalsFor(sb_last_fired_home_away, epoch) # {}
       /\ \E h \in (DOMAIN timers) \ (DOMAIN timers') :
            /\ timers[h].cb = "sb_goal"
            /\ timers[h].due <= now
            /\ timers[h].kw.score_sig = sb_last_fired_home_away
       /\ now < sb_goal_suppress_until_ts )
       => log' = log]_vars


\* C14: right after every goal dispatch, from the coalesced path or from the
\* scoreboard fallback, the suppression entry names the dispatched score
\* signature and expires suppress_seconds after the dispatch instant.
SuppressionRaisedAtDispatch ==
  [][( /\ Len(log') = Len(log) + 1
       /\ log'[Len(log')].kind = "goal"
       /\ log'[Len(log')].sig # <<0, 0>> )
       => /\ sb_last_fired_home_away' = log'[Len(log')].sig
          /\ sb_goal_suppress_until_ts' = now + cfg.suppress_after_scoreboard_goal_seconds]_vars



\* C15: a Feed B goal observation with no team tag and no tracked-team flag
\* (the only kind CoreApiObs holds) in which exactly one side's score is above
\* the baseline held before the observation is attributed to that side:
\* the tracked team when its own counter rose, the opponent otherwise.
ScoreDeltaAttributesGoal ==
  [][\A e \in EventIds :
       ( /\ epoch' = epoch
         /\ e \notin nhl_api_goal_ids_processed
         /\ e \in nhl_api_goal_ids_processed'
         /\ e \notin DOMAIN pending_event_payloads
         /\ e \in DOMAIN pending_event_payloads'
         /\ internal_prev_home_score >= 0
         /\ internal_prev_away_score >= 0 )
       => LET p == pending_event_payloads'[e]
              homeUp == p.score_sig[1] > internal_prev_home_score
              awayUp == p.score_sig[2] > internal_prev_away_score
          IN (homeUp # awayUp)
               => p.is_my_event = (IF p.my_is_home THEN homeUp ELSE awayUp)]_vars


\* ------------------------------------------------ goal-side resolution
\* Feed B alone reports the scores and one goal of g1 (tracked team at home) and
\* g2 (tracked team away) with every combination of team tag, tracked-team
\* flag and score.
ResolverApiObs ==
  ApiObs({"g1", "g2"}, {"LIVE"}, {NoEvent, "e1"}, {"", "MY", "OPP", "XX"},
         {"true", "false", "none"}, {1}, {1})

InitResolver == InitWith(Configs({2}, {0}, {TRUE}), {NoGameObs})

NextResolver ==
  \/ \E o \in ResolverApiObs : NhlApiSensorChange(o)
  \/ \E h \in DOMAIN timers : CoalescedFire(h)
  \/ InitialStateLoad
  \/ Tick

SpecResolver == InitResolver /\ [][NextResolver]_vars

\* C16: in every reachable state and for every Feed B observation, a team tag
\* equal to the tracked or the opponent abbreviation decides the side whatever
\* the flag and the scores are; without a matching tag a boolean flag decides
\* whatever the scores are; and when no tag matches, no flag is given and
\* neither score is above the baseline, the result is the opponent.
ResolverPrecedence ==
  \A o \in ResolverApiObs :
    LET c == _build_nhl_api_context(o, selected)
        r == _determine_goal_side(Self, o, c)
        tagged == o.goal_team_abbrev \in {c.my_team_abbr, c.opp_team_abbr}
        flagged == o.goal_tracked_team \in {"true", "false"}
    IN c.ok =>
         /\ o.goal_team_abbrev = c.my_team_abbr => r
         /\ o.goal_team_abbrev = c.opp_team_abbr => ~r
         /\ (~tagged /\ flagged) => (r <=> o.goal_tracked_team = "true")
         /\ ( /\ ~tagged /\ ~flagged
              /\ c.home_score <= internal_prev_home_score
              /\ c.away_score <= internal_prev_away_score ) => ~r

\* C16 witness: Feed B scheduled a goal for the tracked team although only the
\* opponent has scored, which only a tag or a flag can decide, while the
\* baseline stands above 0-0.
TagOrFlagDecidedAgainstScore ==
  /\ internal_prev_away_score = 1
  /\ \E e \in DOMAIN pending_event_payloads :
       LET p == pending_event_payloads[e]
       IN p.src = "B" /\ p.is_my_event /\ p.my_score = 0 /\ p.opp_score = 1


\* ------------------------------------------------------ games that end
\* Both feeds report g1 (tracked team at home) and g2 (tracked team away), live
\* or over, at every score and without event ids; the win may be restricted
\* to home games or not.
WinDashObs ==
  DashObs({"g1", "g2"}, {"LIVE", "FINAL"}, {<<NoEvent, NoLastEvent>>}, {1}, {NoFeed})

WinApiObs == ApiObs({"g1", "g2"}, {"LIVE", "FINAL", "OFF"}, {NoEvent}, {""}, {"none"}, {1}, {1})

InitWin == InitWith(Configs({2}, {0, 1}, {TRUE, FALSE}), {NoGameObs})

NextWin ==
  \/ \E o \in WinApiObs : NhlApiSensorChange(o)
  \/ \E o \in WinDashObs : DashboardSensorChange(o)
  \/ \E h \in DOMAIN timers : ScoreboardGoalFire(h)
  \/ \E h \in DOMAIN timers : WinFire(h)
  \/ InitialStateLoad
  \/ Tick

SpecWin == InitWin /\ [][NextWin]_vars

WinTimers(tm) == {h \in DOMAIN tm : tm[h].cb = "win"}

\* C17: a win is scheduled only by an observation in a terminal state in which
\* the tracked team's score is above the opponent's, and a win is dispatched
\* only by such a timer firing, never by an observation; so a terminal
\* observation with the tracked team level or behind schedules and dispatches
\* no win.
NoWinWithoutLead ==
  [][ /\ \A h \in WinTimers(timers') \ WinTimers(timers) :
           LET k == timers'[h].kw
               home == IF k.kind = "A" THEN dash'.home_score ELSE internal_prev_home_score'
               away == IF k.kind = "A" THEN dash'.away_score ELSE internal_prev_away_score'
               st == IF k.kind = "A" THEN dash'.state ELSE apiState'
           IN /\ obsLeft' # obsLeft
              /\ st \in {"FINAL", "OFF"}
              /\ IF k.is_home THEN home > away ELSE away > home
              /\ k.my_score > k.opp_score
      /\ (Len(log') > Len(log) /\ log'[Len(log')].kind = "win")
           => /\ obsLeft' = obsLeft
              /\ \E h \in WinTimers(timers) \ WinTimers(timers') :
                   timers[h].kw.my_score > timers[h].kw.opp_score ]_vars

\* C17 witness: both feeds have reported g1 over with the tracked team level or
\* behind, wins are not restricted to home games, and neither a win timer nor
\* a win dispatch exists.
TerminalWithoutLeadSeen ==
  /\ ~cfg.celebrate_win_only_if_home
  /\ dash.game_id = "g1" /\ dash.state = "FINAL" /\ dash.home_score <= dash.away_score
  /\ apiState \in {"FINAL", "OFF"}
  /\ internal_prev_game_id_for_score_tracking = "g1"
  /\ internal_prev_home_score <= internal_prev_away_score
  /\ WinTimers(timers) = {}
  /\ Events({"win"}) = {}
  /\ obsLeft <= MaxObs - 2


WinsOf(g) == {i \in Events({"win"}) : log[i].game_id = g}

\* C18: with wins restricted to home games, no win is dispatched for g2, where
\* the tracked team is the away side, and the win of g1, where it is the home
\* side, is dispatched no more than once, however many terminal observations
\* the two feeds deliver.
HomeGatedWinAtMostOnce ==
  cfg.celebrate_win_only_if_home =>
    /\ WinsOf("g2") = {}
    /\ \A i, j \in WinsOf("g1") : log[i].epoch = log[j].epoch => i = j


\* ------------------------------------------- a score that climbs on Feed A
\* Feed A alone reports g1 live without event ids; from one observation to the
\* next no score falls and at most one goal is added. The tracked team may
\* reach MaxLadderScore goals, the opponent one.
MaxLadderScore == 2

LadderObs(d) ==
  {o \in {[Live00Obs EXCEPT !.home_score = hs, !.away_score = as] :
            hs \in 0..MaxLadderScore, as \in 0..1} :
     /\ o.home_score >= d.home_score
     /\ o.away_score >= d.away_score
     /\ o.home_score + o.away_score <= d.home_score + d.away_score + 1}

InitLadder == InitWith(Configs({2}, {0, 2}, {TRUE}), {Live00Obs})

NextLadder ==
  \/ \E o \in LadderObs(dash) : DashboardSensorChange(o)
  \/ \E h \in DOMAIN timers : ScoreboardGoalFire(h)
  \/ InitialStateLoad
  \/ Tick

SpecLadder == InitLadder /\ [][NextLadder]_vars

SbTimers(tm) == {h \in DOMAIN tm : tm[h].cb = "sb_goal"}

FallbackUsesGoalDelayBudget ==
  [][\A h \in SbTimers(timers') \ SbTimers(timers) :
       timers'[h].due
         = now + Max(MinDelay, cfg.coalesce_goal_seconds + _get_broadcast_delay(cfg))]_vars


\* ------------------------------------- a goal and a penalty side by side
\* Both feeds report g1 live with the tracked team scoring: Feed A identifies
\* the goal e1 and the penalty e2, Feed B the goal e1. The broadcast delay
\* ranges over a negative value, 0, 0.1 s and a value above the cap.
OverCap == BroadcastCap + 100

DelayDashObs ==
  {o \in DashObs({"g1"}, {"LIVE"},
                 {<<NoEvent, NoLastEvent>>,
                  <<"e1", [type |-> "goal", team |-> "", player |-> 1]>>,
                  <<"e2", [type |-> "penalty", team |-> "", player |-> 1]>>},
                 {1}, {NoFeed}) :
     o.away_score = 0}

DelayApiObs ==
  {o \in ApiObs({"g1"}, {"LIVE"}, {NoEvent, "e1"}, {""}, {"none"}, {1}, {1}) :
     o.away_score = 0}

InitDelay == InitWith(Configs({2}, {Absent, 0, 1, OverCap}, {TRUE}), {Live00Obs})

NextDelay ==
  \/ \E o \in DelayDashObs : DashboardSensorChange(o)
  \/ \E o \in DelayApiObs : NhlApiSensorChange(o)
  \/ \E h \in DOMAIN timers : CoalescedFire(h)
  \/ \E h \in DOMAIN timers : ScoreboardGoalFire(h)
  \/ InitialStateLoad
  \/ Tick

SpecDelay == InitDelay /\ [][NextDelay]_vars

CoalescedTimers(tm) == {h \in DOMAIN tm : tm[h].cb = "coalesced"}

\* The deadline of an identified event of a type first observed now.
Deadline(type) ==
  LET coalesce == IF type = "goal" THEN cfg.coalesce_goal_seconds
                  ELSE cfg.coalesce_penalty_seconds
      b == cfg.broadcast_delay_seconds
      clamped == IF b < 0 THEN 0 ELSE IF b > BroadcastCap THEN BroadcastCap ELSE b
  IN now + (IF coalesce + clamped < MinDelay THEN MinDelay ELSE coalesce + clamped)

\* C21: (a) the timer created for an identified event is due at its first
\* observation plus max(0.1 s, coalescing delay of its own type + broadcast
\* delay clamped to [0, 120 s]); (b) when a coalesced timer fires it is at its
\* own deadline, and (c) the firing leaves every other pending event's timer,
\* registration and payload as they were.
PerTypeDeadlinesIndependent ==
  [][ /\ \A h \in CoalescedTimers(timers') \ CoalescedTimers(timers) :
           timers'[h].due = Deadline(timers'[h].kw.event_type)
      /\ \A h \in CoalescedTimers(timers) \ CoalescedTimers(timers') :
           (obsLeft' = obsLeft /\ epoch' = epoch)
             => /\ timers[h].due = now
                /\ \A e \in (DOMAIN pending_event_timers) \ {timers[h].kw.event_id} :
                     /\ e \in DOMAIN pending_event_timers'
                     /\ pending_event_timers'[e] = pending_event_timers[e]
                     /\ pending_event_timers[e] \in DOMAIN timers
                          => /\ pending_event_timers[e] \in DOMAIN timers'
                             /\ timers'[pending_event_timers[e]] = timers[pending_event_timers[e]]
                     /\ e \in DOMAIN pending_event_payloads
                          => /\ e \in DOMAIN pending_event_payloads'
                             /\ pending_event_payloads'[e] = pending_event_payloads[e] ]_vars

\* C21 witness: Feed A reported the goal e1 and then the penalty e2, nothing
\* else; the penalty, with the shorter window, has been dispatched while the
\* goal is still pending with its timer untouched.
PenaltyOvertakesGoal ==
  /\ obsLeft = MaxObs - 2
  /\ dash.last_event_id = "e2"
  /\ \E i \in Events({"penalty"}) : log[i].id = "e2" /\ log[i].epoch = epoch
  /\ Events({"goal"}) = {}
  /\ "e1" \in DOMAIN pending_event_timers
  /\ pending_event_timers["e1"] \in CoalescedTimers(timers)
  /\ timers[pending_event_timers["e1"]].due > now
  /\ "e1" \in DOMAIN pending_event_payloads
  /\ pending_event_payloads["e1"].src = "A"


\* ------------------------------------------- an emission that may fail
\* The observations of SpecDelay with one configuration; the call that hands
\* a goal or a penalty to the consumers may raise.
InitFault == InitWith(Configs({2}, {0}, {TRUE}), {Live00Obs})

NextFault ==
  \/ \E o \in DelayDashObs : DashboardSensorChange(o)
  \/ \E o \in DelayApiObs : NhlApiSensorChange(o)
  \/ \E h \in DOMAIN timers : CoalescedFire(h)
  \/ \E h \in DOMAIN timers : CoalescedFireRaises(h)
  \/ \E h \in DOMAIN timers : ScoreboardGoalFire(h)
  \/ InitialStateLoad
  \/ Tick

SpecFault == InitFault /\ [][NextFault]_vars

\* C22: whenever the coalesced fire callback has run for an event id, whether
\* the emission succeeded or failed, the id is in the fired-event log and has
\* neither a timer registration nor a payload left.
FireAlwaysRecordsId ==
  [][\A h \in CoalescedTimers(timers) \ CoalescedTimers(timers') :
       (obsLeft' = obsLeft /\ epoch' = epoch)
         => LET e == timers[h].kw.event_id
            IN /\ e \in fired_event_ids'
               /\ e \notin DOMAIN pending_event_timers'
               /\ e \notin DOMAIN pending_event_payloads']_vars


\* ---------------------------------------------- a game of two other teams
\* Besides g1, where the tracked team is at home and scores the goal e1, both
\* feeds may report g3, a game in which the tracked team plays on neither side.
ForeignDashObs == DashObs({"g3"}, {"LIVE"}, {<<NoEvent, NoLastEvent>>}, {1}, {NoFeed})

ForeignApiObs == ApiObs({"g3"}, {"LIVE"}, {NoEvent, "e1"}, {""}, {"none"}, {1}, {1})

ForeignHomeDashObs ==
  {o \in DashObs({"g1"}, {"LIVE"}, DashEvents({"e1"}, {"goal"}, {1}), {1}, {NoFeed}) :
     o.away_score = 0}

InitForeign == InitWith(Configs({2}, {0}, {TRUE}), {Live00Obs})

NextForeign ==
  \/ \E o \in ForeignHomeDashObs \cup ForeignDashObs : DashboardSensorChange(o)
  \/ \E o \in DelayApiObs \cup ForeignApiObs : NhlApiSensorChange(o)
  \/ \E h \in DOMAIN timers : CoalescedFire(h)
  \/ \E h \in DOMAIN timers : ScoreboardGoalFire(h)
  \/ InitialStateLoad
  \/ Tick

SpecForeign == InitForeign /\ [][NextForeign]_vars

\* C23: while an identified event is pending, an observation from either feed
\* of a game in which the tracked team is neither the home nor the away side
\* leaves the whole engine state as it is: nothing is scheduled or dispatched,
\* and the tracked game, the baseline, the pending events, the fired log and
\* the suppression entry keep their values.
UnresolvedObservationDropped ==
  pending_event_timers # EmptyMap =>
    /\ \A o \in ForeignApiObs : nhl_api_sensor_change_callback(Self, o, apiState, selected) = Self
    /\ \A o \in ForeignDashObs : dashboard_sensor_change_callback(Self, o, selected) = Self


\* ------------------------------------------------ a sensor that flaps
\* Feed B reports g1 live or is unavailable; Feed A reports g1 live or
\* publishes "no game". No event ids; the home side may score once.
StartDashObs ==
  {NoGameObs} \cup
  {o \in DashObs({"g1"}, {"LIVE"}, {<<NoEvent, NoLastEvent>>}, {1}, {NoFeed}) : o.away_score = 0}

StartApiObs ==
  {o \in ApiObs({"g1"}, {"LIVE", "unavailable"}, {NoEvent}, {""}, {"none"}, {1}, {1}) :
     o.away_score = 0}

InitStart ==
  /\ InitApp
  /\ cfg \in Configs({2}, {0}, {TRUE})
  /\ dash = Live00Obs
  /\ obsLeft = MaxObs + 1
  /\ presetChangesLeft = MaxPresetChanges

NextStart ==
  \/ \E o \in StartApiObs : NhlApiSensorChange(o)
  \/ \E o \in StartDashObs : DashboardSensorChange(o)
  \/ \E h \in DOMAIN timers : ScoreboardGoalFire(h)
  \/ InitialStateLoad
  \/ Tick

SpecStart == InitStart /\ [][NextStart]_vars

\* C24: the game start of a game id is handed out at most once, however often
\* Feed B goes from a state that is not live to LIVE.
StartOncePerGame ==
  \A i, j \in Events({"start"}) :
    (log[i].game_id = log[j].game_id /\ log[i].game_id # NoGame) => i = j


\* C25: an event id of the one game Spec observes is handed out at most
\* once, also when Feed A publishes an observation without a game id between
\* two reports of the id. After such a gap the next report of the game opens a
\* session by a game-id reset: no id dispatched in that session was dispatched
\* before.
NoRedispatchAfterFeedGap ==
  ~ \E i, j \in Events({"goal", "penalty"}) :
      /\ i < j
      /\ log[i].id = log[j].id /\ log[i].id # NoEvent
      /\ log[i].path = "coalesced" /\ log[j].path = "coalesced"
      /\ log[j].epoch = resetSnap.epoch
      /\ resetSnap.cause \in {"dash_game_id", "api_game_id"}


\* C26: within a session, a Feed A observation of the tracked game in which
\* either score is above the baseline leaves a goal scheduled for the
\* observation's score signature: a fallback timer registered under it or a
\* pending identified goal carrying it.
ScoreIncreaseScheduled ==
  [][( /\ dash' # dash
       /\ epoch' = epoch
       /\ dash'.game_id = internal_prev_game_id_for_score_tracking
       /\ \/ dash'.home_score > internal_prev_home_score
          \/ dash'.away_score > internal_prev_away_score )
       => LET sig == <<dash'.home_score, dash'.away_score>>
          IN \/ /\ sig \in DOMAIN pending_sb_goal_timers'
                /\ pending_sb_goal_timers'[sig] \in SbTimers(timers')
             \/ \E e \in DOMAIN pending_event_payloads' :
                  /\ pending_event_payloads'[e].ptype = "goal"
                  /\ pending_event_payloads'[e].score_sig = sig
                  /\ e \in DOMAIN pending_event_timers'
                  /\ pending_event_timers'[e] \in CoalescedTimers(timers')]_vars


\* C27: within a session the scoreboard-fallback path hands out each score
\* signature at most once, whatever older score Feed B reports in between.
FallbackOncePerSignature ==
  \A i, j \in Events({"goal"}) :
    ( /\ log[i].path = "scoreboard" /\ log[j].path = "scoreboard"
      /\ log[i].sig = log[j].sig
      /\ log[i].epoch = log[j].epoch ) => i = j


\* --------------------------------------- two goals within one suppression
\* Feed A reports g1 live without event ids and its scores never fall; Feed B
\* reports g1 live and identifies the goal e1. Each side may score once. The
\* suppression period is longer than the observed time.
SuppressDashObs(d) ==
  {o \in {[Live00Obs EXCEPT !.home_score = hs, !.away_score = as] :
            hs \in 0..1, as \in 0..1} :
     o.home_score >= d.home_score /\ o.away_score >= d.away_score}

SuppressApiObs ==
  {[o EXCEPT !.home_score = hs, !.away_score = as] :
     o \in ApiObs({"g1"}, {"LIVE"}, {NoEvent, "e1"}, {""}, {"none"}, {1}, {1}),
     hs \in 0..1, as \in 0..1}

InitSuppress == InitWith(Configs({MaxTime + 1}, {0}, {TRUE}), {Live00Obs})

NextSuppress ==
  \/ \E o \in SuppressDashObs(dash) : DashboardSensorChange(o)
  \/ \E o \in SuppressApiObs : NhlApiSensorChange(o)
  \/ \E h \in DOMAIN timers : CoalescedFire(h)
  \/ \E h \in DOMAIN timers : ScoreboardGoalFire(h)
  \/ InitialStateLoad
  \/ Tick

SpecSuppress == InitSuppress /\ [][NextSuppress]_vars

\* C28: a suppression entry lasts for its own signature. With a suppression
\* period longer than the whole observed time, the entry raised by a
\* scoreboard dispatch of a signature never expires, so no coalesced goal with
\* that signature is dispatched later in the session, also when the goal of a
\* later score has been dispatched in between.
SuppressionHeldPerSignature ==
  cfg.suppress_after_scoreboard_goal_seconds > MaxTime =>
    ~ \E i, k, j \in Events({"goal"}) :
        /\ i < k /\ k < j
        /\ log[i].epoch = log[j].epoch /\ log[k].epoch = log[j].epoch
        /\ log[i].sig = log[j].sig
        /\ log[i].path = "scoreboard"
        /\ log[j].path = "coalesced"
        /\ log[k].sig # log[i].sig


\* ------------------------------------ an identified goal and the fallbacks
\* Feed A reports g1 live with scores that never fall, with or without the goal
\* id e1; Feed B reports g1 live and identifies the goal e2.
CancelDashObs(d) ==
  {o \in {[Live00Obs EXCEPT !.home_score = hs, !.away_score = as,
                            !.last_event_id = ev[1], !.last_event = ev[2]] :
            hs \in 0..1, as \in 0..1,
            ev \in {<<NoEvent, NoLastEvent>>,
                    <<"e1", [type |-> "goal", team |-> "", player |-> 1]>>}} :
     o.home_score >= d.home_score /\ o.away_score >= d.away_score}

CancelApiObs ==
  {[o EXCEPT !.home_score = hs, !.away_score = as] :
     o \in ApiObs({"g1"}, {"LIVE"}, {NoEvent, "e2"}, {""}, {"none"}, {1}, {1}),
     hs \in 0..1, as \in 0..1}

InitCancel == InitWith(Configs({2}, {0}, {TRUE}), {Live00Obs})

NextCancel ==
  \/ \E o \in CancelDashObs(dash) : DashboardSensorChange(o)
  \/ \E o \in CancelApiObs : NhlApiSensorChange(o)
  \/ \E h \in DOMAIN timers : CoalescedFire(h)
  \/ \E h \in DOMAIN timers : ScoreboardGoalFire(h)
  \/ InitialStateLoad
  \/ Tick

SpecCancel == InitCancel /\ [][NextCancel]_vars

\* What an identified goal id with score signature sig may change from s to r:
\* the fallback timer registered under sig goes, every other timer, every
\* other fallback registration, every pending event and the fired ids stay.
IdentifiedGoalFrame(s, r, sig, id) ==
  LET gone == IF sig \in DOMAIN s.pending_sb_goal_timers
              THEN {s.pending_sb_goal_timers[sig]} ELSE {}
  IN /\ r.pending_sb_goal_timers = Drop(s.pending_sb_goal_timers, sig)
     /\ \A h \in gone : h \notin DOMAIN r.timers
     /\ \A h \in (DOMAIN s.timers) \ gone :
          h \in DOMAIN r.timers /\ r.timers[h] = s.timers[h]
     /\ \A e \in DOMAIN s.pending_event_timers :
          /\ e \in DOMAIN r.pending_event_timers
          /\ r.pending_event_timers[e] = s.pending_event_timers[e]
     /\ DOMAIN r.pending_event_timers \subseteq (DOMAIN s.pending_event_timers) \cup {id}
     /\ \A e \in (DOMAIN s.pending_event_payloads) \ {id} :
          /\ e \in DOMAIN r.pending_event_payloads
          /\ r.pending_event_payloads[e] = s.pending_event_payloads[e]
     /\ r.fired_event_ids = s.fired_event_ids

\* C29: in every reachable state, an identified goal of the tracked game,
\* from Feed A with an event id or from Feed B, cancels and unregisters the
\* fallback timer of the observation's own score signature and nothing else:
\* fallback timers of other signatures, pending identified events and the
\* fired event ids stay as they were.
IdentifiedGoalCancelsOnlyItsFallback ==
  /\ \A o \in CancelDashObs(dash) :
       ( /\ DashReset(Self, o).epoch = epoch
         /\ DashContext(Self, o, selected).resolved
         /\ DashIsIdentified(Self, o)
         /\ o.last_event.type = "goal" )
       => IdentifiedGoalFrame(Self, dashboard_sensor_change_callback(Self, o, selected),
                              <<o.home_score, o.away_score>>, o.last_event_id)
  /\ \A o \in CancelApiObs :
       ( /\ ApiReset(Self, o).epoch = epoch
         /\ selected # NoTeam
         /\ _build_nhl_api_context(o, selected).ok
         /\ o.goal_event_id # NoEvent
         /\ o.goal_event_id \notin nhl_api_goal_ids_processed )
       => IdentifiedGoalFrame(Self, nhl_api_sensor_change_callback(Self, o, apiState, selected),
                              <<o.home_score, o.away_score>>, o.goal_event_id)

\* An identified goal is pending, the fallback timer of its signature has been
\* cancelled before it could fire, and the fallback of another signature runs.
FallbackCancelledOtherKept ==
  /\ now = 0
  /\ \E h \in 1..(nextHandle - 1) : h \notin DOMAIN timers
  /\ \E e \in DOMAIN pending_event_payloads :
       /\ pending_event_payloads[e].ptype = "goal"
       /\ e \in DOMAIN pending_event_timers
       /\ pending_event_payloads[e].score_sig \notin DOMAIN pending_sb_goal_timers
       /\ \E sg \in DOMAIN pending_sb_goal_timers :
            pending_sb_goal_timers[sg] \in SbTimers(timers)


\* C30: within a session of the tracked game, a Feed A observation without an
\* event id whose two counters both stand above the baseline schedules a
\* fallback goal for the tracked team and a fallback goal for the opponent;
\* a scoreboard goal is dispatched only by such a timer.
BothIncreasesScheduled ==
  [][( /\ dash' # dash
       /\ epoch' = epoch
       /\ dash'.state = "LIVE"
       /\ dash'.last_event_id = NoEvent
       /\ dash'.home_score > internal_prev_home_score
       /\ dash'.away_score > internal_prev_away_score )
     => LET made == SbTimers(timers') \ SbTimers(timers)
        IN /\ \E h \in made : timers'[h].kw.kind = "my"
           /\ \E h \in made : timers'[h].kw.kind = "opp"]_vars


\* C31: between callbacks the ids registered in pending_event_timers are the
\* ids with a draft in pending_event_payloads, and none of them is in
\* fired_event_ids; this holds after a schedule, a fire, a fire whose dispatch
\* raised, and a reset.
PendingMapsAgree ==
  /\ DOMAIN pending_event_timers = DOMAIN pending_event_payloads
  /\ (DOMAIN pending_event_timers) \cap fired_event_ids = {}

\* One id has been fired and logged while another one is still pending.
OneFiredOnePending ==
  /\ fired_event_ids # {}
  /\ \E e \in DOMAIN pending_event_timers :
       /\ e \in DOMAIN pending_event_payloads
       /\ pending_event_timers[e] \in CoalescedTimers(timers)


\* ----------------------------------------- a fallback whose dispatch fails
\* Feed A reports g1 live without event ids and its scores never fall; the
\* dispatch of a fallback goal may raise.
InitSbFault == InitWith(Configs({2}, {0, 1}, {TRUE}), {Live00Obs})

NextSbFault ==
  \/ \E o \in SuppressDashObs(dash) : DashboardSensorChange(o)
  \/ \E h \in DOMAIN timers : ScoreboardGoalFire(h)
  \/ \E h \in DOMAIN timers : ScoreboardGoalFireRaises(h)
  \/ InitialStateLoad
  \/ Tick

SpecSbFault == InitSbFault /\ [][NextSbFault]_vars

\* C32: on every firing of a fallback timer the registration of the timer's
\* score signature is gone afterwards, and when no goal was dispatched by the
\* firing the suppression slot is what it was before.
FallbackFireCleansUp ==
  [][\A h \in SbTimers(timers) :
       ( /\ timers[h].due <= now
         /\ h \notin DOMAIN timers'
         /\ epoch' = epoch
         /\ obsLeft' = obsLeft )
       => /\ timers[h].kw.score_sig \notin DOMAIN pending_sb_goal_timers'
          /\ (log' = log =>
                /\ sb_last_fired_home_away' = sb_last_fired_home_away
                /\ sb_goal_suppress_until_ts' = sb_goal_suppress_until_ts)]_vars

\* In the first session a fallback timer has fired and its dispatch raised:
\* nothing was dispatched, nothing is registered and no suppression is up.
FailedFallbackLeftNoTrace ==
  /\ epoch = 1
  /\ nextHandle > 1
  /\ timers = EmptyMap
  /\ pending_sb_goal_timers = EmptyMap
  /\ log = <<>>
  /\ sb_last_fired_home_away = NoSig


\* ------------------------------------------------- celebrations pre-empted
\* The goal app receives up to MaxGoalEvents events of any kind at any time;
\* the horn, lights and TTS switches are read anew at each event.
InitGoal == InitWith(Configs({2}, {0}, {TRUE}), {NoGameObs})

NextGoal ==
  \/ \E named, horn, lights, tts \in BOOLEAN : GoalEvent(named, horn, lights, tts)
  \/ \E named, horn, lights, tts \in BOOLEAN : TeamWinEvent(named, horn, lights, tts)
  \/ \E lights, tts \in BOOLEAN : OpponentGoalEvent(lights, tts)
  \/ \E lights \in BOOLEAN : PenaltyEvent(lights)
  \/ \E h \in DOMAIN goalApp.timers, played \in BOOLEAN : GoalAppTimerFire(h, played)
  \/ GoalAppTick

SpecGoal == InitGoal /\ [][NextGoal]_vars

\* C33: every handle in the horn list and in the lightshow list, and every
\* running horn or light timer, was created under the most recent goal, win or
\* opponent-goal event that the app accepted: by its callback, by a timer of its celebration, or by
\* a penalty received since.
OnlyLatestCelebrationTracked ==
  /\ \A h \in SeqRange(goalApp.horn_active_timers) \cup SeqRange(goalApp.lightshow_active_timers) :
       goalApp.scheduled[h].celebration = goalApp.celebrations
  /\ \A h \in DOMAIN goalApp.timers :
       goalApp.timers[h].cb # "untracked"
         => goalApp.timers[h].celebration = goalApp.celebrations

\* A second celebration runs its own lightshow after it cancelled a timer of
\* the first one that was not yet due.
EarlierCelebrationCancelled ==
  /\ goalApp.celebrations >= 2
  /\ \E h \in DOMAIN goalApp.scheduled :
       /\ goalApp.scheduled[h].celebration < goalApp.celebrations
       /\ goalApp.scheduled[h].due > now
       /\ goalApp.scheduled[h].cb # "untracked"
       /\ h \notin DOMAIN goalApp.timers
  /\ \E h \in SeqRange(goalApp.lightshow_active_timers) :
       /\ h \in DOMAIN goalApp.timers
       /\ goalApp.timers[h].cb = "_force_finish_white"


\* ------------------------------------------------------ Feed A's polling
\* The preset changes up to MaxSelections times, every fetch returns at any
\* time and in any of its ways, the refresh timer fires at its deadline.
InitMgr == InitWith(Configs({2}, {0}, {TRUE}), {NoGameObs})

NextMgr ==
  \/ \E p \in Presets : TeamSelectionChanged(p)
  \/ \E id \in DOMAIN dashMgr.tasks : PresetRead(id)
  \/ \E id \in DOMAIN dashMgr.tasks, outcome \in FetchOutcomes : FetchReturns(id, outcome)
  \/ \E h \in DOMAIN dashMgr.timers : RefreshTimerFires(h)
  \/ MgrTick

SpecMgr == InitMgr /\ [][NextMgr]_vars

\* C34: after every step at most one refresh timer is pending, and after a
\* step that ends a fetch cycle (game found, no game, missing team, fetch
\* error, no team selected) exactly one is pending and timer_handle names it,
\* whatever other cycles are in flight.
OneRefreshPending ==
  [][/\ Cardinality(DOMAIN dashMgr'.timers) <= 1
     /\ dashMgr'.completed # dashMgr.completed
          => /\ Cardinality(DOMAIN dashMgr'.timers) = 1
             /\ dashMgr'.timer_handle \in DOMAIN dashMgr'.timers]_vars

\* After a preset change, a cycle has ended and left its timer pending while
\* the fetch of a scheduled refresh is still in flight.
RefreshInFlightTimerPending ==
  /\ dashMgr.selectionsLeft < MaxSelections
  /\ dashMgr.completed >= 2
  /\ \E id \in DOMAIN dashMgr.tasks :
       dashMgr.tasks[id].kind = "refresh" /\ dashMgr.tasks[id].pc = "fetch"
  /\ Cardinality(DOMAIN dashMgr.timers) = 1
  /\ dashMgr.timer_handle \in DOMAIN dashMgr.timers
====
